---- MODULE Spec2Model ----
(***************************************************************************)
(* Workflow engine, memory store and step dispatcher of the World Cup 2026 *)
(* prediction workflow (src/backend/workflow_engine.py, memory.py,         *)
(* tools.py).                                                              *)
(*                                                                         *)
(* Name binding.  WorkflowEngine calls the store as start_workflow,        *)
(* log_step and get_state; class Memory defines the same three operations  *)
(* as initialize_workflow, update_step and get_current_state.  The model   *)
(* binds each call to the Memory method of the same role and keeps the     *)
(* names of memory.py.  Calls into Tools are resolved as Python resolves   *)
(* them against tools.py: a member that class Tools does not define        *)
(* raises AttributeError, a call with a missing positional argument        *)
(* raises TypeError; both are raised inside the try block of execute.      *)
(*                                                                         *)
(* Strings: substring tests ("x" in s) are modelled by the table of the    *)
(* dispatcher keywords that occur in each lower-cased label or goal.       *)
(* Result texts are those of tools.py without the leading check mark.      *)
(* The created_at / updated_at time stamps of the record are not modelled. *)
(*                                                                         *)
(* Cache and accessors of wikipedia.py.  A cache file is kept by what      *)
(* _cached_get can tell of it: absent, an entry with its _ts and payload,  *)
(* or one of the other contents a file can have.  Payloads are kept by     *)
(* name and truth value.  The clock is read at the start and around each   *)
(* whole life time of an entry after it.                                   *)
(*                                                                         *)
(* The cache is indexed by file name, the key after _cache_path.           *)
(*                                                                         *)
(* Team prediction and player scoring of tools.py.  Scores are integers:   *)
(* the sum in ten-thousandths, the rounded score in hundredths.  A payload *)
(* of fetch_player_stats carries the member draw, which stands for the     *)
(* random.randint values _get_all_players puts into it.                    *)
(*                                                                         *)
(* Writes of memory.json succeed in every specification but SpecWrites,    *)
(* where each _save_memory of a run can raise OSError.                     *)
(***************************************************************************)
EXTENDS Integers, Sequences, FiniteSets, TLC

\* ------------------------------------------------------------------ bounds
\* longest caller-supplied plan handed to execute
MaxPlanLen == 3
\* a small max_steps, so that plans longer than max_steps occur
SmallMaxSteps == 2
\* WorkflowEngine.__init__(max_steps=10)
DefaultMaxSteps == 10
\* the values of max_steps an engine is constructed with when plan is
\* called: from -MostNegativeMaxSteps to MostMaxSteps
MostNegativeMaxSteps == 1
MostMaxSteps == 12
\* the clock is followed for MaxDays times the life time of a cache entry
MaxDays == 1
\* most cache files on the disk at one time
MaxCacheFiles == 1
\* most rows of a team table a caller builds
MaxTeams == 3
\* most players of a list a caller builds freely
MaxPlayers == 3

Min(a, b) == IF a < b THEN a ELSE b

Max(a, b) == IF a > b THEN a ELSE b

\* ------------------------------------------------------------ goal texts
\* the goal None
NoneGoal == "<None>"

\* keywords of _goal_type that occur in (goal or "").strip().lower()
GoalKeywords ==
    "Who will win the World Cup 2026?" :> {"2026", "world cup"} @@
    "Predict the winner of the World Cup" :> {"winner", "world cup"} @@
    "Who wins the Golden Ball?" :> {"golden ball"} @@
    "Who wins the Golden Boot?" :> {"golden boot"} @@
    "Who wins the Golden Glove?" :> {"golden glove"} @@
    "Best young player of the tournament?" :> {"young player"} @@
    "" :> {} @@
    "WHO WILL BE THE WINNER IN 2026?" :> {"2026", "winner"} @@
    "Golden Ball winner of the World Cup" :> {"golden ball", "winner", "world cup"} @@
    "Golden Ball 2026" :> {"2026", "golden ball"} @@
    "Golden Boot or Golden Ball?" :> {"golden ball", "golden boot"} @@
    "Young player with the Golden Glove" :> {"golden glove", "young player"} @@
    "  The winner is?  " :> {"winner"} @@
    NoneGoal :> {}

Goals == DOMAIN GoalKeywords

GoalHas(goal, kw) == kw \in GoalKeywords[goal]

\* a classifier that tests the award rules before the winner rule
_goal_type_awards_first(goal) ==
    IF GoalHas(goal, "golden ball") THEN "golden_ball"
    ELSE IF GoalHas(goal, "golden boot") THEN "golden_boot"
    ELSE IF GoalHas(goal, "golden glove") THEN "golden_glove"
    ELSE IF GoalHas(goal, "young player") THEN "young_player"
    ELSE "team_winner"

_goal_type(goal) ==
    IF GoalHas(goal, "winner") /\ (GoalHas(goal, "world cup") \/ GoalHas(goal, "2026"))
    THEN "team_winner"
    ELSE IF GoalHas(goal, "golden ball") THEN "golden_ball"
    ELSE IF GoalHas(goal, "golden boot") THEN "golden_boot"
    ELSE IF GoalHas(goal, "golden glove") THEN "golden_glove"
    ELSE IF GoalHas(goal, "young player") THEN "young_player"
    ELSE "team_winner"

\* ----------------------------------------------------------- step labels
\* keywords of _run_step that occur in step_desc.lower()
LabelKeywords ==
    "Fetch current FIFA rankings data" :>
        {"fifa ranking"} @@
    "Fetch historical World Cup performance data" :>
        {"historical", "world cup"} @@
    "Analyze team form and recent match results" :>
        {"analyze team form", "team form"} @@
    "Calculate predictive scores using weighted factors (FIFA 25%, Historical 20%, Form 25%, Squad 20%, Home 10%)" :>
        {"calculate", "calculate predictive", "historical", "scor", "weighted factors"} @@
    "Generate top 5 predictions with probabilities" :>
        {"generate top 5"} @@
    "Create visualization data" :>
        {"create visualization"} @@
    "Generate report" :>
        {"generate report"} @@
    "Save results to memory and file" :>
        {"save results"} @@
    "Format output for display" :>
        {"format output"} @@
    "Fetch forward statistics" :>
        {"forward"} @@
    "Fetch midfielder statistics" :>
        {"midfielder"} @@
    "Fetch historical Golden Ball winners" :>
        {"golden", "historical"} @@
    "Calculate player scores (goals + assists + ratings + team success)" :>
        {"calculate", "calculate player", "scor"} @@
    "Rank top 5 candidates with probabilities" :>
        {"rank top 5"} @@
    "Save results to file" :>
        {"save results"} @@
    "Fetch forward and attacking player statistics" :>
        {"attacking", "forward"} @@
    "Fetch historical Golden Boot / top scorer data" :>
        {"golden", "historical", "scor"} @@
    "Calculate scoring-based scores (goals + form + team style)" :>
        {"calculate", "scor"} @@
    "Fetch goalkeeper statistics" :>
        {"goalkeeper"} @@
    "Fetch historical Golden Glove winners" :>
        {"golden", "historical"} @@
    "Calculate keeper scores (clean sheets + saves + defensive strength)" :>
        {"calculate", "scor"} @@
    "Fetch young player (U21) statistics" :>
        {"u21", "young"} @@
    "Fetch historical Young Player Award winners" :>
        {"historical", "young"} @@
    "Calculate scores (age <21 + performance + potential)" :>
        {"calculate", "scor"} @@
    "Notify the organisers" :>
        {}

Labels == DOMAIN LabelKeywords

\* the dispatcher keywords that occur in step_desc as it is written, for a
\* dispatcher that tests the label without lower-casing it
ExactKeywords ==
    "Fetch current FIFA rankings data" :>
        {} @@
    "Fetch historical World Cup performance data" :>
        {"historical"} @@
    "Analyze team form and recent match results" :>
        {"team form"} @@
    "Calculate predictive scores using weighted factors (FIFA 25%, Historical 20%, Form 25%, Squad 20%, Home 10%)" :>
        {"scor", "weighted factors"} @@
    "Generate top 5 predictions with probabilities" :>
        {} @@
    "Create visualization data" :>
        {} @@
    "Generate report" :>
        {} @@
    "Save results to memory and file" :>
        {} @@
    "Format output for display" :>
        {} @@
    "Fetch forward statistics" :>
        {"forward"} @@
    "Fetch midfielder statistics" :>
        {"midfielder"} @@
    "Fetch historical Golden Ball winners" :>
        {"historical"} @@
    "Calculate player scores (goals + assists + ratings + team success)" :>
        {"scor"} @@
    "Rank top 5 candidates with probabilities" :>
        {} @@
    "Save results to file" :>
        {} @@
    "Fetch forward and attacking player statistics" :>
        {"attacking", "forward"} @@
    "Fetch historical Golden Boot / top scorer data" :>
        {"historical", "scor"} @@
    "Calculate scoring-based scores (goals + form + team style)" :>
        {"scor"} @@
    "Fetch goalkeeper statistics" :>
        {"goalkeeper"} @@
    "Fetch historical Golden Glove winners" :>
        {"historical"} @@
    "Calculate keeper scores (clean sheets + saves + defensive strength)" :>
        {"scor"} @@
    "Fetch young player (U21) statistics" :>
        {"young"} @@
    "Fetch historical Young Player Award winners" :>
        {"historical"} @@
    "Calculate scores (age <21 + performance + potential)" :>
        {"scor"} @@
    "Notify the organisers" :>
        {}

Has_case_sensitive(s, kw) == kw \in ExactKeywords[s]

\* `kw in s` with s = step_desc.lower()
Has(s, kw) == kw \in LabelKeywords[s]

\* steps[: n]; a negative n counts from the end of the list
Prefix(steps, n) ==
    IF n >= 0
    THEN SubSeq(steps, 1, Min(Len(steps), n))
    ELSE SubSeq(steps, 1, Max(0, Len(steps) + n))

PlanTemplate(goal_type) ==
    CASE goal_type = "team_winner" ->
           << "Fetch current FIFA rankings data",
              "Fetch historical World Cup performance data",
              "Analyze team form and recent match results",
              "Calculate predictive scores using weighted factors (FIFA 25%, Historical 20%, Form 25%, Squad 20%, Home 10%)",
              "Generate top 5 predictions with probabilities",
              "Create visualization data",
              "Generate report",
              "Save results to memory and file",
              "Format output for display" >>
      [] goal_type = "golden_ball" ->
           << "Fetch forward statistics",
              "Fetch midfielder statistics",
              "Fetch historical Golden Ball winners",
              "Calculate player scores (goals + assists + ratings + team success)",
              "Rank top 5 candidates with probabilities",
              "Create visualization data",
              "Generate report",
              "Save results to file",
              "Format output for display" >>
      [] goal_type = "golden_boot" ->
           << "Fetch forward and attacking player statistics",
              "Fetch historical Golden Boot / top scorer data",
              "Calculate scoring-based scores (goals + form + team style)",
              "Rank top 5 candidates with probabilities",
              "Create visualization data",
              "Generate report",
              "Save results to file",
              "Format output for display" >>
      [] goal_type = "golden_glove" ->
           << "Fetch goalkeeper statistics",
              "Fetch historical Golden Glove winners",
              "Calculate keeper scores (clean sheets + saves + defensive strength)",
              "Rank top 5 candidates with probabilities",
              "Create visualization data",
              "Generate report",
              "Save results to file",
              "Format output for display" >>
      [] OTHER ->
           << "Fetch young player (U21) statistics",
              "Fetch historical Young Player Award winners",
              "Calculate scores (age <21 + performance + potential)",
              "Rank top 5 candidates with probabilities",
              "Create visualization data",
              "Generate report",
              "Save results to file",
              "Format output for display" >>

\* a plan that returns the whole template
plan_untruncated(goal, maxSteps) == PlanTemplate(_goal_type(goal))

\* WorkflowEngine.plan
plan(goal, maxSteps) == Prefix(PlanTemplate(_goal_type(goal)), maxSteps)

\* ------------------------------------------------------- values and dicts
\* A dict returned by a tool is kept as its action, what it is about, the
\* set of its top-level keys and the value the random module put into it
\* (0: the dict holds no random value); None and {} have no keys.
None == [action |-> "None", about |-> "", keys |-> {}, draw |-> 0]

EmptyDict == [action |-> "", about |-> "", keys |-> {}, draw |-> 0]

BaseKeys == {"action", "result", "data", "timestamp"}

Payload(action, about, keys) ==
    [action |-> action, about |-> about, keys |-> keys, draw |-> 0]

\* Python truth value of a dict or None
Truthy(v) == v # None /\ v.keys # {}

\* outcome of a call: a (result_text, result_data) pair or a raised exception
Ok(text, data) == [raised |-> FALSE, error |-> "", text |-> text, data |-> data]

Raise(msg) == [raised |-> TRUE, error |-> msg, text |-> "", data |-> None]

\* -------------------------------------------------------------- class Tools
\* the members class Tools defines
ToolsMembers ==
    { "WIKIPEDIA_API", "WIKIDATA_API", "WORLD_CUP_TEAMS", "CONFEDERATION_STRENGTH",
      "_fetch_from_wikipedia", "fetch_team_article", "fetch_team_roster",
      "fetch_all_team_articles", "calculate_advanced_predictions",
      "_calculate_confidence", "fetch_fifa_rankings", "fetch_player_stats",
      "_get_all_players", "fetch_historical_data", "calculate_predictions",
      "calculate_player_scores", "generate_report", "create_visualization",
      "save_to_file", "analyze_team_form", "data_dir" }

\* t.<name>: the outcome when the member exists, AttributeError otherwise
Member(name, outcome) ==
    IF name \in ToolsMembers
    THEN outcome
    ELSE Raise("'Tools' object has no attribute '" \o name \o "'")

fetch_fifa_rankings ==
    Ok("Retrieved 20 team rankings with enhanced data",
       Payload("fetch_fifa_rankings", "", BaseKeys))

PlayerStatsText(position) ==
    CASE position = "forwards" -> "Retrieved 54 forwards with Wikipedia data"
      [] position = "midfielders" -> "Retrieved 4 midfielders with Wikipedia data"
      [] position = "goalkeepers" -> "Retrieved 1 goalkeepers with Wikipedia data"
      [] OTHER -> "Retrieved 60 young with Wikipedia data"

\* "data" of the result is the dict {position: players}; the goals, assists
\* and rating of the players are put in by Drawn
fetch_player_stats(position) ==
    Ok(PlayerStatsText(position), Payload("fetch_player_stats", position, BaseKeys))

fetch_historical_data(tournament) ==
    Ok("Retrieved World Cup history", Payload("fetch_historical_data", tournament, BaseKeys))

calculate_advanced_predictions ==
    Ok("Calculated predictions for 20 teams using advanced algorithm",
       Payload("calculate_advanced_predictions", "", BaseKeys \cup {"algorithm"}))

\* calculate_predictions(data, weights) ignores both arguments
calculate_predictions == calculate_advanced_predictions

\* keys k for which int(k) succeeds
IntLiterals == {"1", "2", "3", "4", "5", "6", "7", "8", "9", "10"}

\* the loop over data.items() evaluates int(rank) for every key
create_visualization(data) ==
    IF \E k \in data.keys : k \notin IntLiterals
    THEN Raise("invalid literal for int() with base 10: 'action'")
    ELSE Ok("Visualization generated with prediction data",
            Payload("create_visualization", "", BaseKeys))

\* generate_report(predictions, goal) called as t.generate_report(pred)
generate_report_1(pred) ==
    Raise("Tools.generate_report() missing 1 required positional argument: 'goal'")

\* (fwd.get("data") or []) + (mid.get("data") or []): both operands are dicts
ConcatPlayers(fwd, mid) ==
    Raise("unsupported operand type(s) for +: 'dict' and 'dict'")

\* ------------------------------------------------------- step context
EmptyContext == [last |-> None, predictions |-> None, step |-> << >>]

\* context.get(key)
CtxGet(context, key) == IF key = "last" THEN context.last ELSE context.predictions

\* a or b or {}
OrElse(a, b) == IF Truthy(a) THEN a ELSE IF Truthy(b) THEN b ELSE EmptyDict

\* isinstance(d, dict) and ("top5" in d or "predictions" in d)
IsPredictionsShaped(d) == d # None /\ ("top5" \in d.keys \/ "predictions" \in d.keys)

\* analyze_team_form(teams)
analyze_team_form ==
    Ok("Analyzed form for 15 teams based on recent performance",
       Payload("analyze_team_form", "", BaseKeys))

\* calculate_player_scores(players, award_type) with players the dict
\* {position: players}: the loop calls .get on the key, a str
calculate_player_scores(award_type) ==
    Raise("'str' object has no attribute 'get'")

\* _get_all_players gives every player goals, assists and a rating from
\* random.randint (lines 471-473), anew in every call of fetch_player_stats.
\* Of the values one call can draw, two are followed.
RandomOutcomes == { 1, 2 }

\* the values the random module can give to the call that returned out
Draws(out) ==
    IF ~out.raised /\ out.data.action = "fetch_player_stats"
    THEN RandomOutcomes
    ELSE { 0 }

\* the outcome with the values drawn in its payload
Drawn(out, draw) ==
    IF ~out.raised /\ out.data.action = "fetch_player_stats"
    THEN [out EXCEPT !.data.draw = draw]
    ELSE out

\* -------------------------------------------------- WorkflowEngine._run_step
\* a fallback that returns an empty dict as its payload
NoOp_empty_payload == Ok("Step completed", EmptyDict)

NoOp == Ok("Step completed", None)

_run_step(s, goal_type, context) ==
    IF Has(s, "fifa ranking")
    THEN Member("fetch_fifa_rankings", fetch_fifa_rankings)
    ELSE IF Has(s, "historical") /\ Has(s, "world cup")
    THEN Member("fetch_historical_data", fetch_historical_data("World Cup"))
    ELSE IF Has(s, "historical") /\ Has(s, "golden")
    THEN Member("fetch_historical_data", fetch_historical_data("World Cup"))
    ELSE IF Has(s, "historical") /\ Has(s, "young")
    THEN Member("fetch_historical_data", fetch_historical_data("World Cup"))
    ELSE IF Has(s, "analyze team form") \/ Has(s, "team form")
    THEN Member("get_team_names", analyze_team_form)
    ELSE IF Has(s, "calculate predictive") \/ Has(s, "weighted factors")
    THEN Member("WEIGHTS_TEAM", calculate_predictions)
    ELSE IF Has(s, "generate top 5") /\ goal_type = "team_winner"
    THEN Member("WEIGHTS_TEAM", calculate_predictions)
    \* if goal_type == "golden_ball":
    ELSE IF goal_type = "golden_ball" /\ Has(s, "forward")
    THEN Member("fetch_player_stats", fetch_player_stats("forwards"))
    ELSE IF goal_type = "golden_ball" /\ Has(s, "midfielder")
    THEN Member("fetch_player_stats", fetch_player_stats("midfielders"))
    ELSE IF goal_type = "golden_ball" /\ (Has(s, "calculate player") \/ Has(s, "rank top 5"))
    THEN ConcatPlayers(fetch_player_stats("forwards"), fetch_player_stats("midfielders"))
    \* if goal_type == "golden_boot":
    ELSE IF goal_type = "golden_boot" /\ (Has(s, "forward") \/ Has(s, "attacking"))
    THEN Member("fetch_player_stats", fetch_player_stats("forwards"))
    ELSE IF goal_type = "golden_boot"
            /\ ((Has(s, "calculate") /\ Has(s, "scor")) \/ Has(s, "rank top 5"))
    THEN Member("calculate_player_predictions", calculate_player_scores("golden_boot"))
    \* if goal_type == "golden_glove":
    ELSE IF goal_type = "golden_glove" /\ Has(s, "goalkeeper")
    THEN Member("fetch_player_stats", fetch_player_stats("goalkeepers"))
    ELSE IF goal_type = "golden_glove" /\ (Has(s, "calculate") \/ Has(s, "rank top 5"))
    THEN Member("calculate_player_predictions", calculate_player_scores("golden_glove"))
    \* if goal_type == "young_player":
    ELSE IF goal_type = "young_player" /\ (Has(s, "young") \/ Has(s, "u21"))
    THEN Member("fetch_player_stats", fetch_player_stats("young"))
    ELSE IF goal_type = "young_player" /\ (Has(s, "calculate") \/ Has(s, "rank top 5"))
    THEN Member("calculate_player_predictions", calculate_player_scores("young_player"))
    ELSE IF Has(s, "create visualization")
    THEN create_visualization(OrElse(CtxGet(context, "last"), None))
    ELSE IF Has(s, "generate report")
    THEN generate_report_1(OrElse(CtxGet(context, "predictions"), CtxGet(context, "last")))
    ELSE IF Has(s, "save results") \/ Has(s, "save to file")
    THEN generate_report_1(OrElse(CtxGet(context, "predictions"), CtxGet(context, "last")))
    ELSE IF Has(s, "format output")
    THEN Ok("Results ready for display", CtxGet(context, "last"))
    ELSE NoOp

\* ------------------------------------------------------------ class Memory
NoError == "<no error key>"

_create_empty_memory ==
    [ goal |-> "", plan |-> << >>, execution_log |-> << >>,
      final_output |-> EmptyDict, workflow_status |-> "idle", error |-> NoError ]

\* a start that updates the old dict in place and so keeps its error key
initialize_workflow_in_place(mem, goal, steps) ==
    [mem EXCEPT !.goal = goal, !.plan = steps, !.execution_log = << >>,
                !.final_output = EmptyDict, !.workflow_status = "running"]

\* assigns a new dict to self.memory; mem is the dict it replaces
initialize_workflow(mem, goal, steps) ==
    [ goal |-> goal, plan |-> steps, execution_log |-> << >>,
      final_output |-> EmptyDict, workflow_status |-> "running", error |-> NoError ]

StepLog(step_number, action, result, data) ==
    [step |-> step_number, action |-> action, result |-> result, data |-> data]

\* update_step that assigns the log instead of appending to it
update_step_overwrite(mem, step_number, action, result, data) ==
    [mem EXCEPT !.execution_log = << StepLog(step_number, action, result, data) >>]

update_step(mem, step_number, action, result, data) ==
    [mem EXCEPT !.execution_log = Append(@, StepLog(step_number, action, result, data))]

set_final_output(mem, output) ==
    [mem EXCEPT !.final_output = output, !.workflow_status = "completed"]

\* set_error that records the message and leaves the status
set_error_keeps_status(mem, error_message) ==
    [mem EXCEPT !.error = error_message]

set_error(mem, error_message) ==
    [mem EXCEPT !.workflow_status = "error", !.error = error_message]

\* the durable file: missing, unparseable, or a JSON document
NoFile == [exists |-> FALSE, parses |-> FALSE, content |-> _create_empty_memory]

CorruptFile == [exists |-> TRUE, parses |-> FALSE, content |-> _create_empty_memory]

\* a save that writes the status and leaves the other members as created
_save_memory_incremental(mem) ==
    [ exists |-> TRUE, parses |-> TRUE,
      content |-> [_create_empty_memory EXCEPT !.workflow_status = mem.workflow_status] ]

\* _save_memory: json.dump of the whole record; every key of the record is a
\* str and every value a str, int, float, list, dict or None, which
\* json.load gives back unchanged
_save_memory(mem) == [exists |-> TRUE, parses |-> TRUE, content |-> mem]

_load_memory(file) ==
    IF file.exists /\ file.parses THEN file.content ELSE _create_empty_memory

\* get_current_state returns self.memory itself (the live dict)
get_current_state(mem) == mem

\* a reset that clears status, log and output and keeps goal and plan
reset_keeps_plan(mem) ==
    [mem EXCEPT !.execution_log = << >>, !.final_output = EmptyDict,
                !.workflow_status = "idle", !.error = NoError]

\* Memory.reset
reset(mem) == _create_empty_memory

\* --------------------------------------------------- WorkflowEngine.execute
\* a loop that takes the steps from the last to the first
Enumerate_reversed(steps, i) == steps[Len(steps) + 1 - i]

\* enumerate(plan[: self.max_steps], 1): the step the loop numbers i
Enumerate(steps, i) == steps[i]

\* lines 113-117: start the record, fresh locals
StartRecord(mem, goal, steps) == initialize_workflow(mem, goal, steps)

\* lines 123-124: the step returned
StepSucceeded(mem, step_num, action, out) ==
    update_step(mem, step_num, action, out.text, out.data)

\* a context whose key last is set by every returned step, None included
NextContext_always(context, step_num, result_data) ==
    [ last |-> result_data,
      step |-> (step_num :> result_data) @@ context.step,
      predictions |-> IF IsPredictionsShaped(result_data)
                      THEN result_data ELSE context.predictions ]

\* lines 125-129: context after a returned step
NextContext(context, step_num, result_data) ==
    IF result_data # None
    THEN [ last |-> result_data,
           step |-> (step_num :> result_data) @@ context.step,
           predictions |-> IF IsPredictionsShaped(result_data)
                           THEN result_data ELSE context.predictions ]
    ELSE context

\* final_output taken from every payload, without the shape test
NextFinalOutput_any(final_output, result_data) ==
    IF result_data # None THEN result_data ELSE final_output

\* lines 125-130: the local final_output after a returned step
NextFinalOutput(final_output, result_data) ==
    IF result_data # None /\ IsPredictionsShaped(result_data)
    THEN result_data ELSE final_output

\* a failure whose entry holds the bare message as its result
StepFailed_bare_result(mem, step_num, action, e) ==
    set_error(update_step(mem, step_num, action, e, None), e)

\* a failure that sets the error and logs no entry
StepFailed_no_entry(mem, step_num, action, e) == set_error(mem, e)

\* lines 131-133: the step raised e
StepFailed(mem, step_num, action, e) ==
    set_error(update_step(mem, step_num, action, "Error: " \o e, None), e)

\* line 134
ErrorResult(mem, e) ==
    [ op |-> "execute", status |-> "error", error |-> e,
      output |-> EmptyDict, memory |-> get_current_state(mem) ]

\* an end of the loop that stores the output and leaves the status running
FinishRecord_keeps_running(mem, final_output) ==
    [mem EXCEPT !.final_output = final_output]

\* line 136
FinishRecord(mem, final_output) == set_final_output(mem, final_output)

\* line 137
CompletedResult(mem, final_output) ==
    [ op |-> "execute", status |-> "completed", error |-> NoError,
      output |-> final_output, memory |-> get_current_state(mem) ]

NoResult ==
    [ op |-> "none", status |-> "", error |-> NoError,
      output |-> EmptyDict, memory |-> _create_empty_memory ]

\* a thread that is not inside execute
OtherIdle ==
    [ pc |-> "idle", steps |-> << >>, goal_type |-> "", context |-> EmptyContext,
      final_output |-> EmptyDict, step_num |-> 0, ret |-> NoResult ]

\* ============================================ wikipedia.py: cache, accessors
\* CACHE_TTL_SECONDS = 86400
CACHE_TTL_SECONDS == 86400

\* time.time() when the process starts: later than one TTL after the epoch
StartTime == CACHE_TTL_SECONDS + CACHE_TTL_SECONDS

\* the instants at which the clock is read: the start, and the last second
\* before and the first second of each whole TTL after it
Instants ==
    { t \in { StartTime + d * CACHE_TTL_SECONDS - e : d \in 0..MaxDays, e \in 0..1 } :
        t >= StartTime }

\* Values handed around by the accessors, by what the code tests of them:
\* None, the empty list and the empty dict are false, every other value true
PyNone == "None"

EmptyList == "[]"

EmptyMap == "{}"

Falsy == { PyNone, EmptyList, EmptyMap }

\* `a or b`
Or(a, b) == IF a \in Falsy THEN b ELSE a

\* the accessor calls: function and argument
WikiCall(fn, arg) == [fn |-> fn, arg |-> arg]

WikiCalls ==
    { WikiCall("get_qualified_teams_2026", ""),
      WikiCall("get_team_info", "Brazil"),
      WikiCall("get_team_roster", "Brazil"),
      WikiCall("get_team_roster_with_positions", "Brazil"),
      WikiCall("get_historical_world_cup", "2022"),
      WikiCall("get_historical_world_cup", "1990"),
      WikiCall("get_player_info", "Some Player"),
      WikiCall("get_player_info", "Lionel Messi"),
      WikiCall("get_fifa_rankings_wiki", "") }

\* two calls whose team names differ in one character that is no letter
PathCalls ==
    { WikiCall("get_team_info", "Cote d'Ivoire"),
      WikiCall("get_team_info", "Cote d Ivoire") }

\* years of KNOWN_WORLD_CUP and names of KNOWN_GOLDEN_BALL_PLAYERS among the
\* arguments
KNOWN_WORLD_CUP == { "2022" }

KNOWN_GOLDEN_BALL_PLAYERS == { "Lionel Messi" }

\* the key each accessor builds from its argument; the argument of
\* get_player_info is lower-cased and every other character than a-z0-9
\* replaced by "_"
PlayerKey == [ n \in {"Some Player", "Lionel Messi"} |->
                 IF n = "Some Player" THEN "some_player" ELSE "lionel_messi" ]

\* team_name.replace(' ', '_')
Underscored ==
    "Brazil" :> "Brazil" @@
    "Cote d'Ivoire" :> "Cote_d'Ivoire" @@
    "Cote d Ivoire" :> "Cote_d_Ivoire"

CacheKey(call) ==
    CASE call.fn = "get_qualified_teams_2026" -> "qualified_teams_2026"
      [] call.fn = "get_team_info" -> "team_info_" \o Underscored[call.arg]
      [] call.fn = "get_team_roster" -> "roster_" \o Underscored[call.arg]
      [] call.fn = "get_team_roster_with_positions" -> "roster_pos_" \o Underscored[call.arg]
      [] call.fn = "get_historical_world_cup" -> "wc_" \o call.arg
      [] call.fn = "get_player_info" -> "player_" \o PlayerKey[call.arg]
      [] call.fn = "get_fifa_rankings_wiki" -> "fifa_rankings"

\* calls that reach _cached_get: get_player_info answers a known player from
\* its table before it builds a key
UsesCache(call) ==
    ~(call.fn = "get_player_info" /\ call.arg \in KNOWN_GOLDEN_BALL_PLAYERS)

CacheKeys ==
    { CacheKey(call) : call \in { c \in WikiCalls \cup PathCalls : UsesCache(c) } }

\* re.sub(r"[^\w\-]", "_", key)[:120] for the keys that hold a character
\* other than a letter, a digit, "_" and "-"; no key is longer than 120
Substituted ==
    "team_info_Cote_d'Ivoire" :> "team_info_Cote_d_Ivoire"

\* _cache_path(key): the name of the file in data/cache
_cache_path(key) ==
    "wiki_" \o (IF key \in DOMAIN Substituted THEN Substituted[key] ELSE key) \o ".json"

CachePaths == { _cache_path(k) : k \in CacheKeys }

\* _player_info_fallback(player_name)
_player_info_fallback(name) ==
    IF name \in KNOWN_GOLDEN_BALL_PLAYERS
    THEN "KNOWN_GOLDEN_BALL_PLAYERS[" \o name \o "]"
    ELSE "default_player_info"

\* KNOWN_WORLD_CUP.get(year, {})
KnownWorldCup(year) ==
    IF year \in KNOWN_WORLD_CUP THEN "KNOWN_WORLD_CUP[" \o year \o "]" ELSE EmptyMap

\* what the inner fetch() of an accessor returns when _api gives None or the
\* page or the section it looks for is absent
FetchBlank(call) ==
    CASE call.fn = "get_team_info" -> "blank_team_info"
      [] call.fn = "get_historical_world_cup" -> KnownWorldCup(call.arg)
      [] call.fn = "get_player_info" -> _player_info_fallback(call.arg)
      [] OTHER -> EmptyList

\* what fetch() returns when the page is there and parses to a result
FetchParsed(call) ==
    IF call.fn = "get_historical_world_cup"
    THEN KnownWorldCup(call.arg)
    ELSE "parsed:" \o CacheKey(call)

\* the outcome of fetch(): _api swallows every network error and returns
\* None; a response of an unexpected structure raises inside fetch()
NetOutcomes == { "ok", "down", "absent", "malformed" }

Fetch(call, net) ==
    CASE net = "ok" -> [raised |-> FALSE, value |-> FetchParsed(call)]
      [] net \in {"down", "absent"} -> [raised |-> FALSE, value |-> FetchBlank(call)]
      [] net = "malformed" -> [raised |-> TRUE, value |-> PyNone]

\* a cache file: absent, an entry {"_ts": ts, "data": data}, or other content
CacheFile(kind, ts, data) == [kind |-> kind, ts |-> ts, data |-> data]

NoCacheFile == CacheFile("absent", 0, PyNone)

Entry(ts, data) == CacheFile("entry", ts, data)

\* content json.load rejects (JSONDecodeError): garbage, an empty file, a
\* document cut short
Unparseable == CacheFile("unparseable", 0, PyNone)

\* bytes that are not UTF-8 (UnicodeDecodeError)
NotUtf8 == CacheFile("not_utf8", 0, PyNone)

\* a JSON document that is no object: a list, a number, null
NotObject == CacheFile("not_object", 0, PyNone)

\* an object without "_ts"
NoTs(data) == CacheFile("no_ts", 0, data)

\* an object whose "_ts" is a string
BadTs(data) == CacheFile("bad_ts", 0, data)

\* an object with "_ts" and without "data"
NoData(ts) == CacheFile("no_data", ts, PyNone)

\* outcome of the write of a fetched result
WriteOutcomes == { "ok", "open_fails", "dump_fails" }

\* outcome of cache_dir.mkdir(parents=True, exist_ok=True) in _cache_path
DirOutcomes == { "ok", "fails" }

CacheResult(raised, error, value, hit, fetched, file) ==
    [ raised |-> raised, error |-> error, value |-> value, hit |-> hit,
      fetched |-> fetched, file |-> file ]

\* the write of lines 107-110
CacheWrite(file, t, data, write) ==
    CASE write = "ok" -> CacheResult(FALSE, "", data, FALSE, TRUE, Entry(t, data))
      [] write = "open_fails" -> CacheResult(FALSE, "", PyNone, FALSE, TRUE, file)
      [] write = "dump_fails" -> CacheResult(FALSE, "", PyNone, FALSE, TRUE, Unparseable)

\* lines 104-112
CacheMiss(file, fetched, write, t, hasRequests) ==
    IF ~hasRequests
    THEN CacheResult(FALSE, "", PyNone, FALSE, FALSE, file)
    ELSE IF fetched.raised
         THEN CacheResult(FALSE, "", PyNone, FALSE, TRUE, file)
         ELSE CacheWrite(file, t, fetched.value, write)

\* a document with "_ts" is kept as long as `_ts + CACHE_TTL_SECONDS >= now`
Fresh_inclusive(file, t) == file.ts + CACHE_TTL_SECONDS >= t

\* line 100, with data.get("_ts", 0): a document without "_ts" has ts = 0
Fresh(file, t) == file.ts + CACHE_TTL_SECONDS > t

\* _cached_get(key, fetch_fn) on the file of the key.  Only JSONDecodeError
\* and KeyError are caught around the read (line 102).
_cached_get(file, fetched, write, dir, t, hasRequests) ==
    CASE dir = "fails" ->
            CacheResult(TRUE, "OSError", PyNone, FALSE, FALSE, file)
      [] dir # "fails" /\ file.kind = "not_utf8" ->
            CacheResult(TRUE, "UnicodeDecodeError", PyNone, FALSE, FALSE, file)
      [] dir # "fails" /\ file.kind = "not_object" ->
            CacheResult(TRUE, "AttributeError", PyNone, FALSE, FALSE, file)
      [] dir # "fails" /\ file.kind = "bad_ts" ->
            CacheResult(TRUE, "TypeError", PyNone, FALSE, FALSE, file)
      [] dir # "fails" /\ file.kind \in {"entry", "no_data", "no_ts"}
                       /\ Fresh(file, t) ->
            CacheResult(FALSE, "", file.data, TRUE, FALSE, file)
      [] OTHER -> CacheMiss(file, fetched, write, t, hasRequests)

\* what an accessor returns in place of a false result of _cached_get
Fallback(call) ==
    CASE call.fn = "get_qualified_teams_2026" -> "QUALIFIED_2026_FALLBACK"
      [] call.fn = "get_team_info" -> "blank_team_info"
      [] call.fn = "get_team_roster" -> EmptyList
      [] call.fn = "get_team_roster_with_positions" -> EmptyList
      [] call.fn = "get_historical_world_cup" -> KnownWorldCup(call.arg)
      [] call.fn = "get_player_info" -> _player_info_fallback(call.arg)
      [] call.fn = "get_fifa_rankings_wiki" -> "FIFA_RANKING_FALLBACK"

\* the result of an accessor call, as the caller and the cache see it
WikiResult(call, at, found, net, write, r, value) ==
    [ fn |-> call.fn, arg |-> call.arg, at |-> at, found |-> found,
      net |-> IF r.fetched THEN net ELSE "-",
      write |-> IF r.fetched /\ net # "malformed" THEN write ELSE "-",
      raised |-> r.raised, error |-> r.error, hit |-> r.hit,
      fetched |-> r.fetched, got |-> r.value, value |-> value ]

NoWikiCall ==
    [ fn |-> "", arg |-> "", at |-> 0, found |-> NoCacheFile, net |-> "-",
      write |-> "-", raised |-> FALSE, error |-> "", hit |-> FALSE,
      fetched |-> FALSE, got |-> PyNone, value |-> PyNone ]

\* a second run that is not inside _cached_get
WriterIdle == [pc |-> "idle", path |-> "", ts |-> 0, data |-> PyNone]

\* ============================== tools.py: calculate_advanced_predictions
\* A row of Tools.WORLD_CUP_TEAMS, with the members the score reads
Team(name, points, wins, appearances, rating, confed, home, last) ==
    [ name |-> name, fifa_points |-> points, world_cup_wins |-> wins,
      world_cup_appearances |-> appearances, ovr_rating |-> rating,
      confederation |-> confed, home_advantage |-> home, last_world_cup |-> last ]

\* Tools.WORLD_CUP_TEAMS, in the order of the dict
WORLD_CUP_TEAMS ==
    <<
      Team("Argentina", 1851, 3, 18, 87, "CONMEBOL", FALSE, "2022 (Winners)"),
      Team("France", 1842, 2, 16, 86, "UEFA", FALSE, "2022 (Finalists)"),
      Team("Brazil", 1830, 5, 22, 85, "CONMEBOL", FALSE, "2022 (Quarter-Finals)"),
      Team("England", 1797, 1, 16, 85, "UEFA", FALSE, "2022 (Quarter-Finals)"),
      Team("Spain", 1775, 1, 16, 84, "UEFA", FALSE, "2022 (Round of 16)"),
      Team("Germany", 1753, 4, 20, 84, "UEFA", FALSE, "2022 (Group Stage"),
      Team("Netherlands", 1710, 0, 11, 83, "UEFA", FALSE, "2022 (Quarter-Finals)"),
      Team("Portugal", 1697, 0, 8, 83, "UEFA", FALSE, "2022 (Quarter-Finals)"),
      Team("Belgium", 1684, 0, 14, 82, "UEFA", FALSE, "2022 (Group Stage)"),
      Team("Italy", 1731, 4, 18, 82, "UEFA", FALSE, "2022 (Did not qualify)"),
      Team("Croatia", 1664, 0, 6, 82, "UEFA", FALSE, "2022 (Third Place)"),
      Team("Uruguay", 1644, 2, 14, 81, "CONMEBOL", FALSE, "2022 (Quarter-Finals)"),
      Team("USA", 1611, 0, 11, 79, "CONCACAF", TRUE, "2022 (Round of 16)"),
      Team("Mexico", 1597, 0, 17, 79, "CONCACAF", TRUE, "2022 (Group Stage)"),
      Team("Japan", 1586, 0, 7, 79, "AFC", FALSE, "2022 (Round of 16)"),
      Team("South Korea", 1575, 0, 11, 78, "AFC", FALSE, "2022 (Group Stage)"),
      Team("Morocco", 1553, 0, 6, 80, "CAF", FALSE, "2022 (Semi-Finals)"),
      Team("Senegal", 1542, 0, 3, 78, "CAF", FALSE, "2022 (Round of 16)"),
      Team("Colombia", 1624, 0, 6, 79, "CONMEBOL", FALSE, "2018 (Group Stage)"),
      Team("Australia", 1564, 0, 6, 77, "AFC", FALSE, "2022 (Round of 16)")
    >>

\* for each value of "last_world_cup", the keywords of lines 320-329 it contains
LastWorldCupKeywords ==
    (
      "" :> {} @@
      "2018 (Group Stage)" :> {"Group Stage"} @@
      "2022 (Did not qualify)" :> {"Did not qualify"} @@
      "2022 (Finalists)" :> {"Final"} @@
      "2022 (Group Stage" :> {"Group Stage"} @@
      "2022 (Group Stage)" :> {"Group Stage"} @@
      "2022 (Quarter-Finals)" :> {"Final", "Quarter"} @@
      "2022 (Round of 16)" :> {"Round of 16"} @@
      "2022 (Semi-Finals)" :> {"Final", "Semi"} @@
      "2022 (Third Place)" :> {"Third"} @@
      "2022 (Winners)" :> {"Winner"}
    )

\* team rows a caller can put into the table
TeamSamples ==
    { Team("Evenland", 1500, 0, 10, 75, "UEFA", FALSE, "2022 (Group Stage)"),
      Team("Tieland", 2750, 0, 10, 75, "UEFA", FALSE, "2022 (Group Stage)"),
      Team("Trioland", 4000, 0, 10, 75, "UEFA", FALSE, "2022 (Group Stage)"),
      Team("Lowland", 1500, 0, 10, 75, "Nowhere", FALSE, ""),
      Team("Minima", 0, 0, 0, 0, "OFC", FALSE, "2022 (Did not qualify)"),
      Team("Extremia", 9999, 99, 99, 99, "CONMEBOL", TRUE, "2022 (Winners)") }

\* list(table.keys())
Keys(rows) == [ i \in 1..Len(rows) |-> rows[i].name ]

\* the row of a name
TeamNamed(name) ==
    CHOOSE r \in TeamSamples \cup { WORLD_CUP_TEAMS[i] : i \in 1..Len(WORLD_CUP_TEAMS) } :
        r.name = name

\* table.items(), for the table with the keys `names`
Rows(names) == [ i \in 1..Len(names) |-> TeamNamed(names[i]) ]

\* Tools.CONFEDERATION_STRENGTH, in hundredths
CONFEDERATION_STRENGTH ==
    [ c \in {"CONMEBOL", "UEFA", "CONCACAF", "AFC", "CAF", "OFC"} |->
        CASE c = "CONMEBOL" -> 115
          [] c = "UEFA" -> 110
          [] c = "CONCACAF" -> 90
          [] c = "AFC" -> 85
          [] c = "CAF" -> 85
          [] c = "OFC" -> 70 ]

\* CONFEDERATION_STRENGTH.get(confed, 1.0), in hundredths
ConfedStrength(confed) ==
    IF confed \in DOMAIN CONFEDERATION_STRENGTH THEN CONFEDERATION_STRENGTH[confed] ELSE 100

LastHas(last, kw) == kw \in LastWorldCupKeywords[last]

\* the values random.uniform(1, 3) is taken to return, in hundredths
UniformSamples == { 100, 150, 300 }

\* form_score of lines 318-331, in hundredths: the values it can take
FormScores(last) ==
    IF LastHas(last, "Winner") \/ LastHas(last, "Final") THEN {800}
    ELSE IF LastHas(last, "Semi") \/ LastHas(last, "Third") THEN {600}
    ELSE IF LastHas(last, "Quarter") THEN {400}
    ELSE IF LastHas(last, "Round of 16") THEN {200}
    ELSE IF LastHas(last, "Group Stage") \/ LastHas(last, "Did not qualify") THEN {0}
    ELSE UniformSamples

\* the sum of lines 288-333 for the team at index rank, in ten-thousandths
RawScore(team, rank, form) ==
      (21 - rank) * 25000
    + (team.fifa_points - 1500) * 20
    + team.world_cup_wins * 7500 + Min(team.world_cup_appearances, 20) * 750
    + (team.ovr_rating - 70) * 2000
    + (ConfedStrength(team.confederation) - 100) * 1000
    + (IF team.home_advantage THEN 7500 ELSE 0)
    + form * 5

\* round(score, 2), in hundredths: the nearest hundredth; a sum half way
\* between two hundredths goes to either, as the binary float of the sum lies
\* on either side
Round2(x) ==
    IF x % 100 = 50
    THEN { x \div 100, x \div 100 + 1 }
    ELSE { (x + 50) \div 100 }

\* the values of predictions[team_name]["score"], in hundredths
TeamScores(teams, rank) ==
    UNION { Round2(RawScore(teams[rank], rank, form)) :
              form \in FormScores(teams[rank].last_world_cup) }

\* the score lists one call can compute for the table
RECURSIVE ScoreLists(_, _)
ScoreLists(teams, n) ==
    IF n = 0
    THEN { << >> }
    ELSE { Append(s, x) : s \in ScoreLists(teams, n - 1), x \in TeamScores(teams, n) }

\* sorted(..., key=score, reverse=True): descending, equal scores in the
\* order of the dict
SortPosition(scores, i) ==
    1 + Cardinality({ j \in DOMAIN scores :
                        scores[j] > scores[i] \/ (scores[j] = scores[i] /\ j < i) })

Sorted(scores) ==
    [ p \in 1..Len(scores) |-> CHOOSE i \in 1..Len(scores) : SortPosition(scores, i) = p ]

\* sorted_predictions[:10]
ReportLimit == 10

\* _calculate_confidence(rank, score), score in hundredths
_calculate_confidence(rank, score) ==
    IF rank = 1 /\ score > 8000 THEN "Very High"
    ELSE IF rank <= 3 /\ score > 6000 THEN "High"
    ELSE IF rank <= 5 /\ score > 4000 THEN "Medium"
    ELSE IF rank <= 8 /\ score > 2000 THEN "Low"
    ELSE "Speculative"

\* the keys of one entry of "data"
FormattedKeys ==
    { "team", "score", "crest", "shortName", "fifa_rank", "squad_rating",
      "key_players", "confidence" }

\* formatted[str(i)]
Formatted(teams, scores, i) ==
    LET k == Sorted(scores)[i]
    IN  [ team |-> teams[k].name, score |-> scores[k], fifa_rank |-> k,
          squad_rating |-> teams[k].ovr_rating,
          confidence |-> _calculate_confidence(i, scores[k]), keys |-> FormattedKeys ]

\* the dict calculate_advanced_predictions returns when the rounded scores
\* are `scores`: the number of teams of its "result" text, the scores of
\* all teams, and "data" with formatted["1"], formatted["2"], ...
AdvancedPredictions(teams, scores) ==
    [ action |-> "calculate_advanced_predictions", teams |-> Len(teams),
      scores |-> scores,
      data |-> [ i \in 1..Min(ReportLimit, Len(teams)) |-> Formatted(teams, scores, i) ] ]

NoPrediction == [ action |-> "", teams |-> 0, scores |-> << >>, data |-> << >> ]

\* ========================================= tools.py: calculate_player_scores
\* A player dict, by the members the scoring reads.  has: the keys the dict
\* holds; a member that is not in has is read through its .get default.
Player(name, rating, goals, assists, clean_sheets, age, has) ==
    [ name |-> name, rating |-> rating, goals |-> goals, assists |-> assists,
      clean_sheets |-> clean_sheets, age |-> age, has |-> has ]

\* the keys of the dicts _get_all_players builds, among those the scoring reads
RosterKeys == { "name", "rating", "goals", "assists" }

\* players a caller hands to the scoring: dicts as _get_all_players builds
\* them, dicts with clean_sheets or age added, and the empty dict
PlayerSamples ==
    { Player("Striker", 90, 60, 20, 0, 0, RosterKeys),
      Player("Playmaker", 89, 10, 40, 0, 0, RosterKeys),
      Player("Winger", 85, 30, 30, 0, 0, RosterKeys),
      Player("Keeper", 87, 5, 10, 12, 0, RosterKeys \cup {"clean_sheets"}),
      Player("Youngster", 80, 10, 5, 0, 19, RosterKeys \cup {"age"}),
      Player("Veteran", 80, 10, 5, 0, 34, RosterKeys \cup {"age"}),
      Player("Blank", 0, 0, 0, 0, 0, {}) }

PlayerNamed(name) == CHOOSE p \in PlayerSamples : p.name = name

Players(names) == [ i \in 1..Len(names) |-> PlayerNamed(names[i]) ]

\* player.get(key, default)
PlayerGet(player, key, default) ==
    IF key \in player.has THEN player[key] ELSE default

AwardTypes == { "golden_ball", "golden_boot", "golden_glove", "young_player" }

\* the sum of lines 537-548, in ten-thousandths
PlayerSum(player, award_type) ==
    LET rating == PlayerGet(player, "rating", 80)
        goals == PlayerGet(player, "goals", 0)
        assists == PlayerGet(player, "assists", 0)
        clean_sheets == PlayerGet(player, "clean_sheets", 0)
    IN  CASE award_type = "golden_ball" -> rating * 4000 + goals * 3000 + assists * 3000
          [] award_type = "golden_boot" -> goals * 8000 + rating * 2000
          [] award_type = "golden_glove" -> clean_sheets * 5000 + rating * 5000
          [] award_type = "young_player" -> rating * 5000 + goals * 3000 + assists * 2000
          [] OTHER -> rating * 10000

\* round(score, 2), in hundredths.  The sum of whole numbers weighted by
\* tenths is a whole number of tenths, so the rounding has one outcome.
PlayerScore(player, award_type) ==
    CHOOSE s \in Round2(PlayerSum(player, award_type)) : TRUE

\* player_scores before the sort: one entry per player, in the order given
PlayerEntry(players, award_type, i) ==
    [ name |-> PlayerGet(players[i], "name", "Unknown"),
      score |-> PlayerScore(players[i], award_type), index |-> i ]

\* player_scores[:5]
PlayerLimit == 5

\* a slice that keeps every entry
TopEntries_unsliced(entries) == entries

TopEntries(entries) == SubSeq(entries, 1, Min(PlayerLimit, Len(entries)))

\* what a call of a player scoring returned: the function called (none
\* before the call), its arguments, and the exception or the list under
\* "data"
PlayerResult(fn, names, award_type, raised, error, data) ==
    [ fn |-> fn, players |-> names, award_type |-> award_type,
      raised |-> raised, error |-> error, data |-> data ]

\* calculate_player_scores(players, award_type) for a list of player dicts:
\* score every player, sort descending (list.sort is stable), keep the first
\* five.  index is the place of the player in the list handed in.
CalculatePlayerScores(names, award_type) ==
    LET players == Players(names)
        scores == [ i \in 1..Len(players) |-> PlayerScore(players[i], award_type) ]
        order == Sorted(scores)
        sorted == [ p \in 1..Len(players) |-> PlayerEntry(players, award_type, order[p]) ]
    IN  PlayerResult("calculate_player_scores", names, award_type, FALSE, "",
                     TopEntries(sorted))

\* t.calculate_player_predictions(players, award_type): class Tools defines
\* no member of that name
CalculatePlayerPredictions(names, award_type) ==
    LET out == Member("calculate_player_predictions",
                      Ok("Calculated " \o award_type \o " scores", None))
    IN  PlayerResult("calculate_player_predictions", names, award_type,
                     out.raised, out.error, << >>)

NoPlayerResult == PlayerResult("", << >>, "", FALSE, "", << >>)

\* a direct call of _run_step: its arguments and what it returned or raised
Dispatch(goal_type, label, ctx, out) ==
    [ goal_type |-> goal_type, label |-> label, context |-> ctx, out |-> out ]

NoDispatch == Dispatch("", "", EmptyContext, NoOp)

\* ------------------------------------------------------------------- state
VARIABLES
    max_steps,      \* WorkflowEngine.max_steps
    memory,         \* Memory.memory, the dict the store holds
    disk,           \* the file memory.json
    pc,             \* "idle": no call in progress; "loop": inside execute
    steps,          \* plan[: self.max_steps], the list the loop iterates
    goal_type,      \* local of execute
    context,        \* local of execute
    final_output,   \* local of execute
    step_num,       \* number of the next step of the loop
    ret,            \* what the last finished call returned
    held,           \* the caller's reference to a returned record:
                    \*   "none", "live" (the dict the store holds) or
                    \*   "stale" (a dict the store has replaced)
    heldVal,        \* the value of the held dict when it is stale
    other,          \* a second thread calling execute on the same engine:
                    \*   its position, its locals and what its call returned
    dispatched,     \* history: the step numbers for which the run of the
                    \*   first caller has invoked _run_step, in order
    planShared,     \* the "plan" member of the record is the list object the
                    \*   caller handed to execute
    HAS_REQUESTS,   \* wikipedia.HAS_REQUESTS
    cache,          \* the files of data/cache, by file name
    now,            \* time.time()
    wret,           \* the last accessor call of wikipedia.py and its result
    writer,         \* a second run inside _cached_get: between its
                    \*   open(path, "w") and the end of its json.dump
    WorldCupTeams,  \* the keys of Tools.WORLD_CUP_TEAMS, the table the
                    \*   prediction reads, in order
    pred,           \* what the last prediction call returned
    award,          \* what the last player scoring call returned
    resolved        \* the last direct call of _run_step and its outcome

vars == << max_steps, memory, disk, pc, steps, goal_type, context,
           final_output, step_num, ret, held, heldVal, other, dispatched,
           planShared, HAS_REQUESTS, cache, now, wret, writer, WorldCupTeams, pred,
           award, resolved >>

\* the state of wikipedia.py and of the team table
wiki == << HAS_REQUESTS, cache, now, wret, writer >>

\* the team table and the results of direct calls of Tools and _run_step
scoring == << WorldCupTeams, pred, award, resolved >>

locals == << steps, goal_type, context, final_output, step_num >>

\* ----------------------------------------------------------- input domains
\* records an earlier process of this program can have left in memory.json
PriorCompleted ==
    set_final_output(
        update_step(initialize_workflow(_create_empty_memory, "",
                                        << "Fetch current FIFA rankings data" >>),
                    1, "Fetch current FIFA rankings data",
                    fetch_fifa_rankings.text, fetch_fifa_rankings.data),
        EmptyDict)

PriorError ==
    set_error(
        update_step(initialize_workflow(_create_empty_memory, "", << "Generate report" >>),
                    1, "Generate report",
                    "Error: " \o generate_report_1(EmptyDict).error, None),
        generate_report_1(EmptyDict).error)

\* the process stopped inside a run
PriorRunning ==
    update_step(initialize_workflow(_create_empty_memory, "",
                                    << "Fetch current FIFA rankings data",
                                       "Notify the organisers" >>),
                1, "Fetch current FIFA rankings data",
                fetch_fifa_rankings.text, fetch_fifa_rankings.data)

PriorFiles ==
    { NoFile, CorruptFile, _save_memory(PriorCompleted), _save_memory(PriorError),
      _save_memory(PriorRunning) }

\* labels of the plans a caller hands to execute
CustomLabels ==
    { "Fetch current FIFA rankings data", "Create visualization data",
      "Rank top 5 candidates with probabilities", "Notify the organisers" }

SeqsUpTo(S, n) == UNION { [1..k -> S] : k \in 0..n }

\* further plans, with the format, report and save steps
ExtraPlans ==
    { << "Format output for display" >>,
      << "Fetch current FIFA rankings data", "Format output for display" >>,
      << "Create visualization data", "Format output for display",
         "Create visualization data" >>,
      << "Generate report" >>,
      << "Fetch current FIFA rankings data", "Generate report" >>,
      << "Save results to file" >>,
      << "Fetch current FIFA rankings data", "Fetch current FIFA rankings data",
         "Fetch current FIFA rankings data", "Save results to memory and file" >> }

CustomPlans == SeqsUpTo(CustomLabels, MaxPlanLen) \cup ExtraPlans

CustomGoals == { "Who will win the World Cup 2026?", "Who wins the Golden Boot?" }

\* the plans of the smaller specification with a caller that keeps references
CallerLabels == { "Fetch current FIFA rankings data", "Generate report" }

CallerPlans == SeqsUpTo(CallerLabels, 2)

CallerGoals == { "Who will win the World Cup 2026?" }

\* the tables a caller can build: up to MaxTeams rows with different names,
\* and the table of the class; a table is kept as its keys in order
TeamTables ==
    { t \in SeqsUpTo({ r.name : r \in TeamSamples }, MaxTeams) :
        /\ Len(t) >= 1
        /\ \A i, j \in 1..Len(t) : i # j => t[i] # t[j] }
    \cup { Keys(WORLD_CUP_TEAMS) }

\* ----------------------------------------------------------------- helpers
\* the store replaces its dict: a live reference becomes stale
Replaced ==
    IF held = "live"
    THEN held' = "stale" /\ heldVal' = memory
    ELSE UNCHANGED << held, heldVal >>

ClearLocals ==
    /\ steps' = << >>
    /\ goal_type' = ""
    /\ context' = EmptyContext
    /\ final_output' = EmptyDict
    /\ step_num' = 0

\* ------------------------------------------------------------------ actions
\* wikipedia.py imported, no accessor called, nothing in data/cache
WikiQuiet ==
    /\ HAS_REQUESTS = TRUE
    /\ cache = [f \in CachePaths |-> NoCacheFile]
    /\ now = StartTime
    /\ wret = NoWikiCall
    /\ writer = WriterIdle

\* class Tools as tools.py defines it, no prediction made
ScoringQuiet ==
    /\ WorldCupTeams = Keys(WORLD_CUP_TEAMS)
    /\ pred = NoPrediction
    /\ award = NoPlayerResult
    /\ resolved = NoDispatch

Init ==
    /\ max_steps \in {SmallMaxSteps, DefaultMaxSteps}
    /\ disk \in PriorFiles
    /\ memory = _load_memory(disk)
    /\ pc = "idle"
    /\ steps = << >>
    /\ goal_type = ""
    /\ context = EmptyContext
    /\ final_output = EmptyDict
    /\ step_num = 0
    /\ ret = NoResult
    /\ held = "none"
    /\ heldVal = _create_empty_memory
    /\ other = OtherIdle
    /\ dispatched = << >>
    /\ planShared = FALSE
    /\ WikiQuiet
    /\ ScoringQuiet

\* execute(plan, goal), lines 113-117
ExecuteStart(goal, p) ==
    /\ pc = "idle"
    /\ memory' = StartRecord(memory, goal, p)
    /\ disk' = _save_memory(memory')
    /\ context' = EmptyContext
    /\ goal_type' = _goal_type(goal)
    /\ final_output' = EmptyDict
    /\ steps' = Prefix(p, max_steps)
    /\ step_num' = 1
    /\ pc' = "loop"
    /\ ret' = NoResult
    /\ dispatched' = << >>
    /\ planShared' = TRUE
    /\ Replaced
    /\ UNCHANGED << max_steps, wiki, scoring, other >>

\* a loop that dispatches the same step again after it has raised
ExecuteStep_retry ==
    /\ pc = "loop"
    /\ step_num <= Len(steps)
    /\ \E draw \in Draws(_run_step(Enumerate(steps, step_num), goal_type, context)) :
       LET action == Enumerate(steps, step_num)
           out == Drawn(_run_step(action, goal_type, context), draw)
       IN  IF ~out.raised
           THEN /\ memory' = StepSucceeded(memory, step_num, action, out)
                /\ context' = NextContext(context, step_num, out.data)
                /\ final_output' = NextFinalOutput(final_output, out.data)
                /\ step_num' = step_num + 1
                /\ UNCHANGED << pc, steps, goal_type, ret >>
           ELSE /\ memory' = StepFailed(memory, step_num, action, out.error)
                /\ UNCHANGED << pc, locals, ret >>
    /\ disk' = _save_memory(memory')
    /\ dispatched' = Append(dispatched, step_num)
    /\ UNCHANGED << max_steps, wiki, scoring, planShared, held, heldVal, other >>

\* one iteration of the loop, lines 119-134
ExecuteStep ==
    /\ pc = "loop"
    /\ step_num <= Len(steps)
    /\ \E draw \in Draws(_run_step(Enumerate(steps, step_num), goal_type, context)) :
       LET action == Enumerate(steps, step_num)
           out == Drawn(_run_step(action, goal_type, context), draw)
       IN  IF ~out.raised
           THEN /\ memory' = StepSucceeded(memory, step_num, action, out)
                /\ disk' = _save_memory(memory')
                /\ context' = NextContext(context, step_num, out.data)
                /\ final_output' = NextFinalOutput(final_output, out.data)
                /\ step_num' = step_num + 1
                /\ UNCHANGED << pc, steps, goal_type, ret >>
           ELSE /\ memory' = StepFailed(memory, step_num, action, out.error)
                /\ disk' = _save_memory(memory')
                /\ ret' = ErrorResult(memory', out.error)
                /\ pc' = "idle"
                /\ ClearLocals
    /\ dispatched' = Append(dispatched, step_num)
    /\ UNCHANGED << max_steps, wiki, scoring, planShared, held, heldVal, other >>

\* after the loop, lines 136-137
ExecuteFinish ==
    /\ pc = "loop"
    /\ step_num > Len(steps)
    /\ memory' = FinishRecord(memory, final_output)
    /\ disk' = _save_memory(memory')
    /\ ret' = CompletedResult(memory', final_output)
    /\ pc' = "idle"
    /\ ClearLocals
    /\ UNCHANGED << max_steps, wiki, scoring, planShared, held, heldVal, other, dispatched >>

\* WorkflowEngine.get_memory
GetMemory ==
    /\ pc = "idle"
    /\ ret' = [NoResult EXCEPT !.op = "get_memory", !.memory = get_current_state(memory)]
    /\ UNCHANGED << max_steps, wiki, scoring, planShared, memory, disk, pc, locals, held, heldVal, other, dispatched >>

\* a reset that also empties data/cache
Reset_clears_cache ==
    /\ pc = "idle"
    /\ memory' = reset(memory)
    /\ disk' = _save_memory(memory')
    /\ ret' = [NoResult EXCEPT !.op = "reset"]
    /\ planShared' = FALSE
    /\ Replaced
    /\ cache' = [k \in DOMAIN cache |-> NoCacheFile]
    /\ UNCHANGED << max_steps, HAS_REQUESTS, now, wret, writer, scoring, pc, locals,
                    other, dispatched >>

\* WorkflowEngine.reset
Reset ==
    /\ pc = "idle"
    /\ memory' = reset(memory)
    /\ disk' = _save_memory(memory')
    /\ ret' = [NoResult EXCEPT !.op = "reset"]
    /\ planShared' = FALSE
    /\ Replaced
    /\ UNCHANGED << max_steps, wiki, scoring, pc, locals, other, dispatched >>

Execute ==
    \/ \E goal \in Goals : ExecuteStart(goal, plan(goal, max_steps))
    \/ \E goal \in CustomGoals, p \in CustomPlans : ExecuteStart(goal, p)

Next ==
    \/ Execute
    \/ ExecuteStep
    \/ ExecuteFinish
    \/ GetMemory
    \/ Reset

Spec == Init /\ [][Next]_vars

\* execute is an ordinary synchronous call: once entered, the calling thread
\* goes on through the loop as long as each step operation returns or raises
SpecLive == Spec /\ WF_vars(ExecuteStep) /\ WF_vars(ExecuteFinish)

\* ------------------------------------------------- a caller that plans
\* WorkflowEngine(max_steps=n) for any int n: __init__ stores it unchecked
InitPlan ==
    /\ max_steps \in (0 - MostNegativeMaxSteps)..MostMaxSteps
    /\ disk \in PriorFiles
    /\ memory = _load_memory(disk)
    /\ pc = "idle"
    /\ steps = << >>
    /\ goal_type = ""
    /\ context = EmptyContext
    /\ final_output = EmptyDict
    /\ step_num = 0
    /\ ret = NoResult
    /\ held = "none"
    /\ heldVal = _create_empty_memory
    /\ other = OtherIdle
    /\ dispatched = << >>
    /\ planShared = FALSE
    /\ WikiQuiet
    /\ ScoringQuiet

\* WorkflowEngine.plan(goal): reads self.max_steps, changes nothing
PlanCall(goal) ==
    /\ pc = "idle"
    /\ ret' = [op |-> "plan", goal |-> goal, plan |-> plan(goal, max_steps)]
    /\ UNCHANGED << max_steps, wiki, scoring, planShared, memory, disk, pc, locals, held, heldVal, other, dispatched >>

NextPlan ==
    \/ \E goal \in Goals : PlanCall(goal)
    \/ Reset

SpecPlan == InitPlan /\ [][NextPlan]_vars

\* ------------------------------------------- a caller that keeps references
\* the caller keeps the dict returned by get_memory (the same dict is the
\* "memory" member of the result of execute)
KeepReference ==
    /\ pc = "idle"
    /\ held # "live"
    /\ held' = "live"
    /\ heldVal' = _create_empty_memory
    /\ ret' = [NoResult EXCEPT !.op = "get_memory", !.memory = get_current_state(memory)]
    /\ UNCHANGED << max_steps, wiki, scoring, planShared, memory, disk, pc, locals, other, dispatched >>

\* what the caller writes into a dict it holds
Tamper(rec, how) ==
    IF how = "status"
    THEN [rec EXCEPT !.workflow_status = "tampered"]
    ELSE [rec EXCEPT !.execution_log = << >>]

\* the caller changes the dict it holds; nothing is saved
CallerMutate(how) ==
    /\ pc = "idle"
    /\ held # "none"
    /\ IF held = "live"
       THEN memory' = Tamper(memory, how) /\ UNCHANGED heldVal
       ELSE heldVal' = Tamper(heldVal, how) /\ UNCHANGED memory
    /\ UNCHANGED << max_steps, wiki, scoring, planShared, disk, pc, locals, ret, held, other, dispatched >>

DropReference ==
    /\ pc = "idle"
    /\ held # "none"
    /\ held' = "none"
    /\ heldVal' = _create_empty_memory
    /\ UNCHANGED << max_steps, wiki, scoring, planShared, memory, disk, pc, locals, ret, other, dispatched >>

ExecuteCaller == \E goal \in CallerGoals, p \in CallerPlans : ExecuteStart(goal, p)

NextCaller ==
    \/ ExecuteCaller
    \/ ExecuteStep
    \/ ExecuteFinish
    \/ GetMemory
    \/ Reset
    \/ KeepReference
    \/ \E how \in {"status", "log"} : CallerMutate(how)
    \/ DropReference

SpecCaller == Init /\ [][NextCaller]_vars

\* the value the caller sees through the reference it holds
HeldValue == IF held = "live" THEN memory ELSE heldVal

\* ------------------------------------- two threads calling the one engine
\* execute takes no lock and tests no status before it starts: a second
\* thread may call it while a run of the first is inside its loop.  Each
\* store call is taken as one step; the record and the file are shared.
OtherLabels == { "Fetch current FIFA rankings data", "Notify the organisers" }

OtherPlans == SeqsUpTo(OtherLabels, 2)

OtherGoals == { "Who wins the Golden Boot?" }

\* the second thread enters execute(plan, goal), lines 113-117
OtherStart(goal, p) ==
    /\ other.pc = "idle"
    /\ memory' = StartRecord(memory, goal, p)
    /\ disk' = _save_memory(memory')
    /\ other' = [ pc |-> "loop", steps |-> Prefix(p, max_steps),
                  goal_type |-> _goal_type(goal), context |-> EmptyContext,
                  final_output |-> EmptyDict, step_num |-> 1, ret |-> NoResult ]
    /\ planShared' = TRUE
    /\ Replaced
    /\ UNCHANGED << max_steps, wiki, scoring, pc, locals, ret, dispatched >>

\* one iteration of the loop of the second thread, lines 119-134
OtherStep ==
    /\ other.pc = "loop"
    /\ other.step_num <= Len(other.steps)
    /\ \E draw \in Draws(_run_step(Enumerate(other.steps, other.step_num),
                                     other.goal_type, other.context)) :
       LET action == Enumerate(other.steps, other.step_num)
           out == Drawn(_run_step(action, other.goal_type, other.context), draw)
       IN  IF ~out.raised
           THEN /\ memory' = StepSucceeded(memory, other.step_num, action, out)
                /\ other' = [other EXCEPT
                                !.context = NextContext(@, other.step_num, out.data),
                                !.final_output = NextFinalOutput(@, out.data),
                                !.step_num = @ + 1]
           ELSE /\ memory' = StepFailed(memory, other.step_num, action, out.error)
                /\ other' = [OtherIdle EXCEPT !.ret = ErrorResult(memory', out.error)]
    /\ disk' = _save_memory(memory')
    /\ UNCHANGED << max_steps, wiki, scoring, planShared, pc, locals, ret, held, heldVal, dispatched >>

\* the second thread leaves the loop, lines 136-137
OtherFinish ==
    /\ other.pc = "loop"
    /\ other.step_num > Len(other.steps)
    /\ memory' = FinishRecord(memory, other.final_output)
    /\ disk' = _save_memory(memory')
    /\ other' = [OtherIdle EXCEPT !.ret = CompletedResult(memory', other.final_output)]
    /\ UNCHANGED << max_steps, wiki, scoring, planShared, pc, locals, ret, held, heldVal, dispatched >>

OtherExecute == \E goal \in OtherGoals, p \in OtherPlans : OtherStart(goal, p)

NextConcurrent ==
    \/ ExecuteCaller
    \/ ExecuteStep
    \/ ExecuteFinish
    \/ OtherExecute
    \/ OtherStep
    \/ OtherFinish
    \/ Reset

SpecConcurrent == Init /\ [][NextConcurrent]_vars

\* ------------------------------------ a caller that keeps its plan list
\* initialize_workflow stores the list it is handed ("plan": plan, line 45);
\* the loop of execute iterates a slice, a copy.  The caller, on another of
\* its threads while execute runs or after it has returned, changes the list
\* it handed over; nothing is saved.
EditPlan(p, how) ==
    CASE how = "pop" -> SubSeq(p, 1, Len(p) - 1)
      [] how = "clear" -> << >>
      [] how = "append" -> Append(p, "Notify the organisers")

CallerEditsPlan(how) ==
    /\ planShared
    /\ how = "pop" => Len(memory.plan) > 0
    /\ how = "append" => Len(memory.plan) < MaxPlanLen
    /\ memory' = [memory EXCEPT !.plan = EditPlan(@, how)]
    /\ UNCHANGED << max_steps, wiki, scoring, planShared, disk, pc, locals, ret,
                    held, heldVal, other, dispatched >>

NextPlanHolder ==
    \/ ExecuteCaller
    \/ ExecuteStep
    \/ ExecuteFinish
    \/ Reset
    \/ \E how \in {"pop", "clear", "append"} : CallerEditsPlan(how)

SpecPlanHolder == Init /\ [][NextPlanHolder]_vars


\* --------------------------------------------- the accessors of wikipedia.py
\* the state of the engine, its store and its callers
engine ==
    << max_steps, memory, disk, pc, steps, goal_type, context, final_output,
       step_num, ret, held, heldVal, other, dispatched, planShared >>

\* a new engine in a directory without memory.json
EngineFresh ==
    /\ max_steps = DefaultMaxSteps
    /\ disk = NoFile
    /\ memory = _load_memory(disk)
    /\ pc = "idle"
    /\ steps = << >>
    /\ goal_type = ""
    /\ context = EmptyContext
    /\ final_output = EmptyDict
    /\ step_num = 0
    /\ ret = NoResult
    /\ held = "none"
    /\ heldVal = _create_empty_memory
    /\ other = OtherIdle
    /\ dispatched = << >>
    /\ planShared = FALSE

CacheFiles(c) == { k \in DOMAIN c : c[k].kind # "absent" }

\* get_player_info(name) for a name of KNOWN_GOLDEN_BALL_PLAYERS, lines 469-471
KnownPlayer(call) ==
    CacheResult(FALSE, "", _player_info_fallback(call.arg), FALSE, FALSE, NoCacheFile)

\* One accessor call, from its first line to its return: _cache_path, the
\* read of the file, fetch(), the write, and the `or` of the accessor.
\* net, write and dir are what the network, the write of the file and the
\* creation of the cache directory do during this call.
Accessor(call, net, write, dir) ==
    /\ LET path == _cache_path(CacheKey(call))
           found == IF UsesCache(call) THEN cache[path] ELSE NoCacheFile
           r == IF UsesCache(call)
                THEN _cached_get(found, Fetch(call, net), write, dir, now, HAS_REQUESTS)
                ELSE KnownPlayer(call)
           value == IF r.raised THEN PyNone ELSE Or(r.value, Fallback(call))
       IN  /\ cache' = IF UsesCache(call) THEN [cache EXCEPT ![path] = r.file] ELSE cache
           /\ wret' = WikiResult(call, now, found, net, write, r, value)
    /\ Cardinality(CacheFiles(cache')) <= Max(MaxCacheFiles, Cardinality(CacheFiles(cache)))
    /\ UNCHANGED << engine, scoring, HAS_REQUESTS, now, writer >>

\* time passes
Tick ==
    /\ \E t \in Instants : t > now /\ now' = t
    /\ UNCHANGED << engine, scoring, HAS_REQUESTS, cache, wret, writer >>

\* the two accessors followed through time
CacheCalls ==
    { WikiCall("get_fifa_rankings_wiki", ""), WikiCall("get_team_roster", "Brazil") }

\* the file an earlier process, or anything else that writes into data/cache,
\* has left for the key of an accessor
PriorCacheFiles(call) ==
    { NoCacheFile,
      Entry(StartTime - CACHE_TTL_SECONDS, FetchParsed(call)),
      Entry(StartTime - CACHE_TTL_SECONDS + 1, FetchParsed(call)),
      Entry(StartTime - 1, FetchBlank(call)),
      Unparseable, NotUtf8, NotObject,
      NoTs(FetchParsed(call)), BadTs(FetchParsed(call)), NoData(StartTime - 1) }

NoCache == [f \in CachePaths |-> NoCacheFile]

InitCache ==
    /\ EngineFresh
    /\ ScoringQuiet
    /\ HAS_REQUESTS \in BOOLEAN
    /\ \E call \in CacheCalls :
          \E f \in PriorCacheFiles(call) : cache = [NoCache EXCEPT ![_cache_path(CacheKey(call))] = f]
    /\ now = StartTime
    /\ wret = NoWikiCall
    /\ writer = WriterIdle

CacheCall ==
    \E call \in CacheCalls, net \in NetOutcomes, write \in WriteOutcomes :
        Accessor(call, net, write, "ok")

NextCache ==
    \/ CacheCall
    \/ Tick

SpecCache == InitCache /\ [][NextCache]_vars

\* every accessor, with every failure of the network, of the write and of
\* the cache directory, on a cache that starts empty
InitWiki ==
    /\ EngineFresh
    /\ ScoringQuiet
    /\ HAS_REQUESTS \in BOOLEAN
    /\ cache = NoCache
    /\ now = StartTime
    /\ wret = NoWikiCall
    /\ writer = WriterIdle

WikiAccess ==
    \E call \in WikiCalls, net \in NetOutcomes, write \in WriteOutcomes :
        Accessor(call, net, write, "ok")

\* the cache directory cannot be created: no network or write is reached
WikiAccessNoDir == \E call \in WikiCalls : Accessor(call, "ok", "ok", "fails")

NextWiki ==
    \/ WikiAccess
    \/ WikiAccessNoDir

SpecWiki == InitWiki /\ [][NextWiki]_vars

\* --------------------------------------- two runs that use the same cache
\* A second run (another thread or process) calls an accessor.  Its
\* _cached_get has found no usable entry and has fetched; its
\* open(path, "w") of line 108 empties the file of the key.
WriterOpen(call) ==
    /\ writer.pc = "idle"
    /\ HAS_REQUESTS
    /\ LET path == _cache_path(CacheKey(call))
       IN  /\ ~(cache[path].kind = "entry" /\ Fresh(cache[path], now))
           /\ writer' = [pc |-> "dump", path |-> path, ts |-> now, data |-> FetchParsed(call)]
           /\ cache' = [cache EXCEPT ![path] = Unparseable]
    /\ UNCHANGED << engine, scoring, HAS_REQUESTS, now, wret >>

\* its json.dump of line 109 ends and the file is closed.  When the first
\* run has written the same file in between, the bytes of the two documents
\* lie over each other: either document, or neither
WriterDump ==
    /\ writer.pc = "dump"
    /\ \E f \in IF cache[writer.path] = Unparseable
                THEN { Entry(writer.ts, writer.data) }
                ELSE { Entry(writer.ts, writer.data), cache[writer.path], Unparseable } :
          cache' = [cache EXCEPT ![writer.path] = f]
    /\ writer' = WriterIdle
    /\ UNCHANGED << engine, scoring, HAS_REQUESTS, now, wret >>

\* the first run, with the network up and the disk writable
SoundCall ==
    \E call \in CacheCalls, net \in {"ok", "absent"} : Accessor(call, net, "ok", "ok")

NextCacheConcurrent ==
    \/ SoundCall
    \/ \E call \in CacheCalls : WriterOpen(call)
    \/ WriterDump
    \/ Tick

SpecCacheConcurrent == InitWiki /\ [][NextCacheConcurrent]_vars

\* ------------------------------------------- the engine beside the cache
RunPlans == { << "Fetch current FIFA rankings data" >>, << "Generate report" >> }

ExecuteRun == \E goal \in CallerGoals, p \in RunPlans : ExecuteStart(goal, p)

NextCacheReset ==
    \/ CacheCall
    \/ ExecuteRun
    \/ ExecuteStep
    \/ ExecuteFinish
    \/ Reset

SpecCacheReset == InitWiki /\ [][NextCacheReset]_vars

\* ------------------------------------------ the team prediction of tools.py
InitScore ==
    /\ EngineFresh
    /\ WikiQuiet
    /\ WorldCupTeams \in TeamTables
    /\ pred = NoPrediction
    /\ award = NoPlayerResult
    /\ resolved = NoDispatch

\* Tools.calculate_advanced_predictions(); calculate_predictions(data,
\* weights) returns the result of the same call, whatever its arguments
CalculateAdvancedPredictions ==
    /\ \E scores \in ScoreLists(Rows(WorldCupTeams), Len(WorldCupTeams)) :
          pred' = AdvancedPredictions(Rows(WorldCupTeams), scores)
    /\ UNCHANGED << engine, wiki, WorldCupTeams, award, resolved >>

NextScore == CalculateAdvancedPredictions

SpecScore == InitScore /\ [][NextScore]_vars

\* ------------------------------------------- the player scoring of tools.py
\* the lists a caller hands to the scoring: up to MaxPlayers different
\* players, and longer lists, in which scores repeat
PlayerLists ==
    { l \in SeqsUpTo({ p.name : p \in PlayerSamples }, MaxPlayers) :
        \A i, j \in 1..Len(l) : i # j => l[i] # l[j] }
    \cup { << "Veteran", "Keeper", "Youngster", "Striker", "Blank" >>,
           << "Veteran", "Keeper", "Youngster", "Striker", "Blank", "Winger" >>,
           << "Blank", "Veteran", "Playmaker", "Youngster", "Keeper", "Winger",
              "Striker" >> }

\* the award types of the engine, and a name that is none of them
AwardNames == AwardTypes \cup { "best_coach" }

\* the caller has built its list and chosen the award; no call made yet
InitAward ==
    /\ EngineFresh
    /\ WikiQuiet
    /\ WorldCupTeams = Keys(WORLD_CUP_TEAMS)
    /\ pred = NoPrediction
    /\ resolved = NoDispatch
    /\ \E names \in PlayerLists, a \in AwardNames :
          award = PlayerResult("", names, a, FALSE, "", << >>)

\* Tools.calculate_player_scores(players, award_type)
ScorePlayers ==
    /\ award' = CalculatePlayerScores(award.players, award.award_type)
    /\ UNCHANGED << engine, wiki, WorldCupTeams, pred, resolved >>

\* Tools.calculate_player_predictions(players, award_type), the call of
\* _run_step (lines 180, 189, 198, 207)
PredictPlayers ==
    /\ award' = CalculatePlayerPredictions(award.players, award.award_type)
    /\ UNCHANGED << engine, wiki, WorldCupTeams, pred, resolved >>

NextAward ==
    \/ ScorePlayers
    \/ PredictPlayers

SpecAward == InitAward /\ [][NextAward]_vars

\* --------------------------------------------- _run_step called on its own
GoalTypes ==
    { "team_winner", "golden_ball", "golden_boot", "golden_glove", "young_player" }

\* the context of a first step, and the context after a step with a payload
StepContexts ==
    { EmptyContext, NextContext(EmptyContext, 1, fetch_fifa_rankings.data) }

\* _run_step(step_desc, goal_type, context)
RunStep ==
    /\ \E s \in Labels, gt \in GoalTypes, ctx \in StepContexts :
          resolved' = Dispatch(gt, s, ctx, _run_step(s, gt, ctx))
    /\ UNCHANGED << engine, wiki, WorldCupTeams, pred, award >>

NextDispatch == RunStep

InitDispatch ==
    /\ EngineFresh
    /\ WikiQuiet
    /\ ScoringQuiet

SpecDispatch == InitDispatch /\ [][NextDispatch]_vars

\* ------------------------------------------- a caller that runs a goal again
\* one goal of each category, run with the plan that plan() builds for it
RepeatGoals ==
    { "Who will win the World Cup 2026?", "Who wins the Golden Ball?",
      "Who wins the Golden Boot?", "Who wins the Golden Glove?",
      "Best young player of the tournament?" }

RepeatExecute == \E goal \in RepeatGoals : ExecuteStart(goal, plan(goal, max_steps))

\* The caller keeps the record of a finished run (KeepReference) and runs
\* again: the store then holds a new dict and the caller the old one.
NextRepeat ==
    \/ RepeatExecute
    \/ ExecuteStep
    \/ ExecuteFinish
    \/ KeepReference

SpecRepeat == Init /\ [][NextRepeat]_vars

\* ------------------------------------------------ keys that share a file
PathCall ==
    \E call \in PathCalls \cup { WikiCall("get_team_info", "Brazil") },
       net \in { "ok", "absent" } :
        Accessor(call, net, "ok", "ok")

NextCachePaths ==
    \/ PathCall
    \/ Tick

SpecCachePaths == InitWiki /\ [][NextCachePaths]_vars

\* ------------------------------------ memory.json writes that can fail
\* _save_memory opens memory.json with "w" and dumps the record, lines
\* 106-109, with no try: an OSError of open or of the dump reaches the caller
FailedWrites == WriteOutcomes \ { "ok" }

\* str(e) of the OSError
WriteError(w) ==
    IF w = "open_fails" THEN "[Errno 30] Read-only file system: 'memory.json'"
    ELSE "[Errno 28] No space left on device"

\* memory.json after _save_memory of mem with outcome w: an open that fails
\* leaves the file as it was, a dump that fails leaves a truncated file
Written(w, file, mem) ==
    IF w = "ok" THEN _save_memory(mem)
    ELSE IF w = "open_fails" THEN file
    ELSE CorruptFile

\* execute left by an exception
RaisedResult(e) ==
    [ op |-> "execute", status |-> "raised", error |-> e,
      output |-> EmptyDict, memory |-> _create_empty_memory ]

\* the except block, lines 131-134, entered with e: log_step writes with
\* outcome w2, set_error with outcome w3; an OSError of either leaves execute
Handled(mem, file, k, action, e, w2, w3) ==
    LET logged == update_step(mem, k, action, "Error: " \o e, None)
        failed == set_error(logged, e)
    IN  IF w2 # "ok"
        THEN [ memory |-> logged, disk |-> Written(w2, file, logged),
               ret |-> RaisedResult(WriteError(w2)) ]
        ELSE IF w3 # "ok"
        THEN [ memory |-> failed, disk |-> Written(w3, _save_memory(logged), failed),
               ret |-> RaisedResult(WriteError(w3)) ]
        ELSE [ memory |-> failed, disk |-> _save_memory(failed),
               ret |-> ErrorResult(failed, e) ]

\* execute(plan, goal) whose start_workflow cannot write, line 113
ExecuteStartFails(goal, p) ==
    /\ pc = "idle"
    /\ \E w \in FailedWrites :
          /\ memory' = StartRecord(memory, goal, p)
          /\ disk' = Written(w, disk, memory')
          /\ ret' = RaisedResult(WriteError(w))
    /\ dispatched' = << >>
    /\ planShared' = TRUE
    /\ Replaced
    /\ UNCHANGED << max_steps, wiki, scoring, pc, locals, other >>

ExecuteFails == \E goal \in RepeatGoals : ExecuteStartFails(goal, plan(goal, max_steps))

\* one iteration of the loop, lines 119-134: w1 is the outcome of the write
\* of log_step at line 124, w2 and w3 those of the except block
ExecuteStepWrites ==
    /\ pc = "loop"
    /\ step_num <= Len(steps)
    /\ \E draw \in Draws(_run_step(Enumerate(steps, step_num), goal_type, context)),
          w1 \in WriteOutcomes, w2 \in WriteOutcomes, w3 \in WriteOutcomes :
       LET action == Enumerate(steps, step_num)
           out == Drawn(_run_step(action, goal_type, context), draw)
           logged == StepSucceeded(memory, step_num, action, out)
       IN  IF ~out.raised /\ w1 = "ok"
           THEN /\ memory' = logged
                /\ disk' = _save_memory(memory')
                /\ context' = NextContext(context, step_num, out.data)
                /\ final_output' = NextFinalOutput(final_output, out.data)
                /\ step_num' = step_num + 1
                /\ UNCHANGED << pc, steps, goal_type, ret >>
           ELSE LET h == IF out.raised
                         THEN Handled(memory, disk, step_num, action, out.error, w2, w3)
                         ELSE Handled(logged, Written(w1, disk, logged), step_num, action,
                                      WriteError(w1), w2, w3)
                IN  /\ memory' = h.memory
                    /\ disk' = h.disk
                    /\ ret' = h.ret
                    /\ pc' = "idle"
                    /\ ClearLocals
    /\ dispatched' = Append(dispatched, step_num)
    /\ UNCHANGED << max_steps, wiki, scoring, planShared, held, heldVal, other >>

\* the end of the loop whose set_final_output cannot write, line 136
ExecuteFinishFails ==
    /\ pc = "loop"
    /\ step_num > Len(steps)
    /\ \E w \in FailedWrites :
          /\ memory' = FinishRecord(memory, final_output)
          /\ disk' = Written(w, disk, memory')
          /\ ret' = RaisedResult(WriteError(w))
    /\ pc' = "idle"
    /\ ClearLocals
    /\ UNCHANGED << max_steps, wiki, scoring, planShared, held, heldVal, other, dispatched >>

NextWrites ==
    \/ RepeatExecute
    \/ ExecuteFails
    \/ ExecuteStepWrites
    \/ ExecuteFinish
    \/ ExecuteFinishFails

SpecWrites == Init /\ [][NextWrites]_vars

\* ================================================================== claims
Log == memory.execution_log

LastEntry(log) == log[Len(log)]

\* the loop is about to run step step_num
AtStep == pc = "loop" /\ step_num <= Len(steps)

StepOutcome == _run_step(steps[step_num], goal_type, context)

AllowedStatusChange(old, new) ==
    \/ new = "running"
    \/ new = "idle"
    \/ old = "running" /\ new \in {"completed", "error"}

RECURSIVE LatestShaped(_)
\* the payload of the last entry whose data holds a top5 or predictions key
LatestShaped(log) ==
    IF log = << >> THEN EmptyDict
    ELSE LET d == LastEntry(log).data
         IN  IF d # None /\ ("top5" \in d.keys \/ "predictions" \in d.keys)
             THEN d
             ELSE LatestShaped(SubSeq(log, 1, Len(log) - 1))

TeamWinnerGoal == "Who will win the World Cup 2026?"

\* C5: the plan generated for "Who will win the World Cup 2026?" runs 9
\* steps and ends completed with log entries 1..9; a completed run has one
\* entry per step of plan[:max_steps], and the log never holds more than
\* min(len(plan), max_steps) entries.
C5_TeamWinnerNineSteps ==
    /\ ( /\ pc = "idle" /\ ret.op = "execute"
         /\ max_steps = DefaultMaxSteps
         /\ memory.goal = TeamWinnerGoal
         /\ memory.plan = plan(TeamWinnerGoal, max_steps)
         => /\ ret.status = "completed"
            /\ Len(Log) = 9
            /\ \A k \in 1..9 : Log[k].step = k )
    /\ (pc = "idle" /\ ret.op = "execute" /\ ret.status = "completed"
          => Len(Log) = Min(Len(memory.plan), max_steps))
    /\ (ret.op = "execute" => Len(Log) <= Min(Len(memory.plan), max_steps))

Unmatched(s, gt) ==
    \/ LabelKeywords[s] = {}
    \/ LabelKeywords[s] = {"rank top 5"} /\ gt = "team_winner"

IsIdleView(rec) ==
    /\ rec.workflow_status = "idle"
    /\ rec.plan = << >>
    /\ rec.execution_log = << >>
    /\ rec.final_output = EmptyDict

\* C9: reset() then get_state() returns status idle, plan [], log [] and
\* final_output {} from every state, and a further reset gives the same.
C9_ResetThenGetState ==
    /\ [](ret.op = "reset" => IsIdleView(memory) /\ memory.goal = "" /\ memory.error = NoError)
    /\ [][ (ret.op = "reset" /\ ret'.op = "get_memory") => IsIdleView(ret'.memory) ]_vars
    /\ [][ ret'.op = "reset" => IsIdleView(memory') /\ disk'.content = memory' ]_vars

\* get_state after a reset that followed a run: the idle record is on disk
C9_Witness ==
    /\ ret.op = "get_memory"
    /\ IsIdleView(ret.memory)
    /\ disk.exists /\ disk.parses /\ IsIdleView(disk.content)

CallerMutates == \E how \in {"status", "log"} : CallerMutate(how)

\* C10: get_state returns a copy: a change the caller makes to a returned
\* record does not change the record of the engine, and a later store
\* operation does not change a record returned earlier.
C10_ReturnedCopy ==
    [][ /\ (CallerMutates => memory' = memory)
        /\ (held # "none" /\ held' # "none" /\ ~CallerMutates /\ ~KeepReference
              => HeldValue' = HeldValue) ]_vars

\* a process started now would load exactly the record the store holds
DurableIsWhole == disk.exists /\ disk.parses /\ _load_memory(disk) = memory

\* a step in which execute or reset makes a store call: the start of a run
\* (start), an iteration of the loop (log_step, set_error), the end of the
\* loop (set_final_output), a reset
StoreCall ==
    \/ pc = "idle" /\ pc' = "loop"
    \/ pc = "loop"
    \/ ret'.op = "reset"

\* C11: when a mutating store call (start, log_step, set_final_output,
\* set_error, reset) has returned, the file holds the whole in-memory record:
\* goal, plan, every log entry, final_output, status and error.
C11_WholeRecordPersisted == [][StoreCall => DurableIsWhole']_vars

\* inside a run, after the second log_step: the file holds both entries
C11_Witness ==
    /\ pc = "loop" /\ Len(Log) = 2
    /\ disk.exists /\ disk.parses
    /\ disk.content.execution_log = Log
    /\ disk.content.plan = memory.plan /\ Len(memory.plan) >= 2
    /\ disk.content.workflow_status = "running"

\* no call has been made on the engine since it was constructed
AtStartup == pc = "idle" /\ ret.op = "none" /\ other = OtherIdle

\* C12: at process startup the record is idle with an empty plan and an
\* empty log, whatever an earlier process left in the file (a completed,
\* running or error record, or a corrupt file).
C12_StartupIdle == AtStartup => IsIdleView(memory) /\ memory.goal = ""

\* every log entry is the entry of the step of that number of the record's plan
LogOfOnePlan ==
    \A k \in 1..Len(Log) :
        /\ Log[k].step = k
        /\ k <= Len(memory.plan)
        /\ Log[k].action = memory.plan[k]

\* C13: runs are serialized: at most one run is in progress at a time (a
\* start issued while another run is running is rejected or queued), so the
\* goal, plan and log entries of two runs never mix in the record.
C13_RunsSerialized ==
    /\ ~(pc = "loop" /\ other.pc = "loop")
    /\ LogOfOnePlan

\* the numbers 1, 2, ..., n in order
UpTo(n) == [i \in 1..n |-> i]

Terminal == {"completed", "error"}

RECURSIVE LatestPayload(_)
\* the payload of the last entry that has one, None when no entry has
LatestPayload(log) ==
    IF log = << >> THEN None
    ELSE IF LastEntry(log).data # None THEN LastEntry(log).data
    ELSE LatestPayload(SubSeq(log, 1, Len(log) - 1))

RECURSIVE LatestPredictions(_)
\* the payload of the last entry holding a top5 or predictions key
LatestPredictions(log) ==
    IF log = << >> THEN None
    ELSE LET d == LastEntry(log).data
         IN  IF d # None /\ ("top5" \in d.keys \/ "predictions" \in d.keys)
             THEN d
             ELSE LatestPredictions(SubSeq(log, 1, Len(log) - 1))

GoalRules ==
    << [category |-> "team_winner", all |-> {"winner"}, any |-> {"world cup", "2026"}],
       [category |-> "golden_ball", all |-> {"golden ball"}, any |-> {}],
       [category |-> "golden_boot", all |-> {"golden boot"}, any |-> {}],
       [category |-> "golden_glove", all |-> {"golden glove"}, any |-> {}],
       [category |-> "young_player", all |-> {"young player"}, any |-> {}] >>

RuleMatches(r, goal) ==
    /\ r.all \subseteq GoalKeywords[goal]
    /\ (r.any = {} \/ r.any \cap GoalKeywords[goal] # {})

FirstMatch(goal) ==
    LET M == {i \in 1..Len(GoalRules) : RuleMatches(GoalRules[i], goal)}
    IN  IF M = {} THEN "team_winner"
        ELSE GoalRules[CHOOSE i \in M : \A j \in M : i <= j].category

\* C18: the category of a goal is that of the first rule, in the order
\* winner with world cup or 2026, golden ball, golden boot, golden glove,
\* young player, that matches the lower-cased text, and team_winner when no
\* rule matches, an empty goal and the goal None included.
C18_Classify ==
    /\ [](pc = "loop" => goal_type = FirstMatch(memory.goal))
    /\ [](\A goal \in Goals : _goal_type(goal) = FirstMatch(goal))

\* a run for a goal that matches the winner rule and an award rule
C18_Witness ==
    /\ pc = "loop"
    /\ memory.goal = "Golden Ball winner of the World Cup"
    /\ RuleMatches(GoalRules[1], memory.goal) /\ RuleMatches(GoalRules[2], memory.goal)
    /\ goal_type = "team_winner"

\* plan has returned the plan of a goal classified as team_winner
PlannedTeamWinner == ret.op = "plan" /\ _goal_type(ret.goal) = "team_winner"

\* C19, as stated: for a goal classified as team_winner and any configured
\* max_steps, plan(goal) has between 1 and max_steps entries, and two calls
\* with equal goal text return identical plans.
C19_PlanLength ==
    /\ [](PlannedTeamWinner => Len(ret.plan) >= 1 /\ Len(ret.plan) <= max_steps)
    /\ [][ \A goal \in Goals : plan(goal, max_steps)' = plan(goal, max_steps) ]_vars

\* C19, amended: for a goal classified as team_winner and max_steps >= 1,
\* plan(goal) is the first min(9, max_steps) labels of the team-winner
\* template, so has between 1 and max_steps entries; for max_steps = 0 it is
\* empty; and plan(goal) returns the same plan in every state of the engine.
C19_PlanLengthPositive ==
    /\ [](PlannedTeamWinner /\ max_steps >= 1 =>
            /\ Len(ret.plan) = Min(9, max_steps)
            /\ Len(ret.plan) >= 1 /\ Len(ret.plan) <= max_steps
            /\ \A k \in 1..Len(ret.plan) : ret.plan[k] = PlanTemplate("team_winner")[k])
    /\ [](PlannedTeamWinner /\ max_steps = 0 => ret.plan = << >>)
    /\ [][ \A goal \in Goals : plan(goal, max_steps)' = plan(goal, max_steps) ]_vars

\* plan has cut the team-winner template to a max_steps below its length
C19_Witness ==
    /\ PlannedTeamWinner
    /\ max_steps = 3 /\ Len(ret.plan) = 3
    /\ ret.goal = "WHO WILL BE THE WINNER IN 2026?"

C21_PlanImmutable == [][pc = "loop" => memory'.plan = memory.plan]_vars

\* ------------------------------------------------------------ cache claims
\* an accessor has been called
Called == wret.fn # ""

\* the age of the file the last call found, at the time of the call
Age == wret.at - wret.found.ts

CorruptKinds == { "unparseable", "not_utf8", "not_object", "no_ts", "bad_ts", "no_data" }

\* C22: a cache entry is used only while now - timestamp < 86400 seconds; an
\* expired entry and a corrupt one (unparseable file, no timestamp, parseable
\* content that is no entry) are treated as a miss, the fetch is made, and
\* no error is raised to the caller.
C22_ExpiredOrCorruptIsMiss ==
    Called =>
        /\ wret.hit => wret.found.kind = "entry" /\ Age < CACHE_TTL_SECONDS
        /\ \/ wret.found.kind = "entry" /\ Age >= CACHE_TTL_SECONDS
           \/ wret.found.kind \in CorruptKinds
           => /\ ~wret.raised
              /\ ~wret.hit
              /\ HAS_REQUESTS => wret.fetched

C24_NeverRaises == Called => ~wret.raised

\* C25: when the fetch or the parse fails, or the parsed result is empty,
\* the accessor returns its static table and not an empty result.
C25_FallbackNotEmpty ==
    Called /\ ~wret.raised /\ wret.fetched /\ wret.net \in {"down", "absent", "malformed"}
        => wret.value \notin Falsy

\* C26: no call ever finds a partial or corrupt file for its key, with a
\* network that is up, a disk that takes every write and a cache that starts
\* empty.
C26_NoPartialFileFound == Called => wret.found.kind \notin CorruptKinds

\* a step of reset
ResetStep == ret'.op = "reset" /\ engine' # engine

\* C27: reset leaves every cache file as it is, with its timestamp and its
\* payload, and after it no step context is left in memory.
C27_ResetLeavesCache ==
    [][ResetStep => cache' = cache /\ context' = EmptyContext]_vars

\* reset has been called after a run, with an entry in the cache
C27_Witness ==
    /\ ret.op = "reset"
    /\ memory = _create_empty_memory
    /\ dispatched # << >>
    /\ \E f \in CachePaths : cache[f].kind = "entry"

\* ------------------------------------------------------- prediction claims
\* a prediction has been made
Predicted == pred.action # ""

Reported == DOMAIN pred.data

\* C28: every reported entry of the top 5 carries a probability, the
\* probabilities are not negative and add up to 100 within 0.1.  The entries
\* the code reports have the members of FormattedKeys; a probability is not
\* among them, so that the statement comes down to its first part.
C28_TopFiveProbabilities ==
    Predicted => \A i \in Reported : "probability" \in pred.data[i].keys

\* the reported entries are the first of the descending order of all teams,
\* equal scores in the order of the table
TopInOrder ==
    /\ Len(pred.scores) = Len(WorldCupTeams)
    /\ \A i \in Reported :
          /\ pred.data[i].fifa_rank \in 1..Len(WorldCupTeams)
          /\ pred.data[i].team = WorldCupTeams[pred.data[i].fifa_rank]
          /\ pred.data[i].score = pred.scores[pred.data[i].fifa_rank]
    /\ \A i, j \in Reported :
          i < j =>
            \/ pred.data[i].score > pred.data[j].score
            \/ /\ pred.data[i].score = pred.data[j].score
               /\ pred.data[i].fifa_rank < pred.data[j].fifa_rank
    /\ \A k \in 1..Len(WorldCupTeams) :
          (\A i \in Reported : pred.data[i].fifa_rank # k) =>
            \A i \in Reported :
                \/ pred.data[i].score > pred.scores[k]
                \/ pred.data[i].score = pred.scores[k] /\ pred.data[i].fifa_rank < k

\* C29: all teams are scored, ordered by descending score with equal scores
\* in input order, and exactly the top 5 of that order are reported.
C29_ExactlyTopFive ==
    Predicted => TopInOrder /\ Len(pred.data) = Min(5, Len(WorldCupTeams))

\* C30: every reported score lies in [0, 100] (scores are in hundredths).
C30_ScoreWithinRange ==
    Predicted => \A i \in Reported : pred.data[i].score >= 0 /\ pred.data[i].score <= 10000

\* ------------------------------------------------------------------- C31
Scored == award.fn # ""

\* C31: player award scoring that is handed fewer than 5 candidates puts the
\* built-in roster of the award type in their place, so that it returns a
\* top 5 that is not empty; calculate_player_predictions([], "golden_boot")
\* is such a call.
C31_FallbackRoster ==
    (Scored /\ Len(award.players) < PlayerLimit) =>
        /\ ~award.raised
        /\ Len(award.data) >= 1

\* ------------------------------------------------------------------- C32
ScoredDirectly == award.fn = "calculate_player_scores" /\ award.award_type \in AwardTypes

\* the places, in the list handed in, of the players reported
ReportedPlayers == { award.data[i].index : i \in DOMAIN award.data }

\* C32: for each of the four award types the scoring reports its candidates
\* in non-increasing order of score, at most 5 of them, and these are the 5
\* candidates of the input with the highest scores.
C32_TopFiveDescending ==
    ScoredDirectly =>
        LET players == Players(award.players)
            n == Len(award.players)
        IN  /\ Len(award.data) = Min(5, n)
            /\ \A i, j \in DOMAIN award.data :
                  i < j => award.data[i].score >= award.data[j].score
            /\ Cardinality(ReportedPlayers) = Len(award.data)
            /\ ReportedPlayers \subseteq 1..n
            /\ \A i \in DOMAIN award.data :
                  award.data[i].score
                      = PlayerScore(players[award.data[i].index], award.award_type)
            /\ \A k \in (1..n) \ ReportedPlayers : \A i \in DOMAIN award.data :
                  PlayerScore(players[k], award.award_type) <= award.data[i].score

\* a list of more than 5 candidates, two of them with the same score, scored
C32_Witness ==
    /\ ScoredDirectly
    /\ Len(award.players) > 5
    /\ Len(award.data) = 5
    /\ \E i \in 1..4 : award.data[i].score = award.data[i + 1].score
    /\ award.data[1].score > award.data[5].score

\* ------------------------------------------------------------------- C36
\* age_bonus + rating*0.4 + goals*0.3 + assists*0.2 with
\* age_bonus = max(0, (22 - age) * 3), in hundredths
YoungPlayerFormula(player) ==
    Max(0, (22 - player.age) * 3) * 100
    + player.rating * 40 + player.goals * 30 + player.assists * 20

\* goals*0.8 + rating*0.2, in hundredths
GoldenBootFormula(player) == player.goals * 80 + player.rating * 20

\* C36: the young player score of a player is age_bonus + rating*0.4 +
\* goals*0.3 + assists*0.2 with age_bonus = max(0, (22 - age) * 3), and the
\* golden boot score is goals*0.8 + rating*0.2, for every player record (here:
\* every record that holds the members the formula reads).
C36_ScoreFormulas ==
    award.fn = "calculate_player_scores" =>
        \A i \in DOMAIN award.data :
            LET player == Players(award.players)[award.data[i].index]
            IN  /\ (award.award_type = "golden_boot" /\ RosterKeys \subseteq player.has)
                      => award.data[i].score = GoldenBootFormula(player)
                /\ (award.award_type = "young_player"
                        /\ RosterKeys \cup {"age"} \subseteq player.has)
                      => award.data[i].score = YoungPlayerFormula(player)

\* ------------------------------------------------------------------- C37
\* the labels of the plan generated for a category
PlanLabels(gt) == { PlanTemplate(gt)[i] : i \in DOMAIN PlanTemplate(gt) }

Dispatched == resolved.label # ""

\* the operations of class Tools a step hands back the result of
StepOperations ==
    { "fetch_fifa_rankings", "fetch_historical_data", "fetch_player_stats",
      "analyze_team_form", "calculate_advanced_predictions", "calculate_player_scores",
      "create_visualization", "generate_report", "save_to_file" }

\* C37: for each of the five goal categories, every step label of the plan
\* generated for the category is resolved by the dispatcher, under that
\* category, to a data, scoring or output operation, and never to the no-op
\* fallback ("Step completed", None).
C37_PlanLabelsResolved ==
    (Dispatched /\ resolved.label \in PlanLabels(resolved.goal_type)) =>
        /\ resolved.out # NoOp
        /\ resolved.out.text # NoOp.text
        /\ ~resolved.out.raised =>
              \/ resolved.out.data.action \in StepOperations
              \/ resolved.out.text = "Results ready for display"

\* the last label of the young player plan and its first, dispatched under
\* that category
C37_Witness ==
    /\ Dispatched
    /\ resolved.goal_type = "young_player"
    /\ resolved.label \in { "Fetch young player (U21) statistics",
                            "Format output for display" }
    /\ ~resolved.out.raised

\* ------------------------------------------------------------------- C33
\* a run has ended while the caller holds the record of an earlier run of the
\* same goal
RanAgain ==
    /\ pc = "idle"
    /\ ret.op = "execute"
    /\ held = "stale"
    /\ heldVal.workflow_status \in Terminal
    /\ heldVal.goal = memory.goal

\* C33: running the same goal twice against the same external data gives the
\* same plan, the same log (step, action, result and payload of every entry;
\* time stamps are not part of the model) and the same final output: no step
\* result depends on a random draw.
C33_SameGoalSameRun ==
    RanAgain =>
        /\ heldVal.plan = memory.plan
        /\ heldVal.execution_log = memory.execution_log
        /\ heldVal.final_output = memory.final_output
        /\ heldVal.workflow_status = memory.workflow_status

\* ------------------------------------------------------------------- C35
\* the payloads _cached_get writes under the key of a call
PayloadsOf(call) == { FetchParsed(call), FetchBlank(call) }

\* C35: each cache key has its own file, two different keys never the same
\* one, so that a read for one key never returns the payload that was
\* written under another key.
C35_OneFilePerKey ==
    (Called /\ wret.hit /\ wret.found.kind = "entry") =>
        wret.got \in PayloadsOf(WikiCall(wret.fn, wret.arg))

\* ------------------------------------------------------------------- C34
\* the file of the key of the last call
FileOfCall == cache[_cache_path(CacheKey(WikiCall(wret.fn, wret.arg)))]

\* what fetch() of the last call returned
Fetched == Fetch(WikiCall(wret.fn, wret.arg), wret.net)

\* C34: on a cache hit the fetch function is not called; on a cache miss it
\* is called, once, and when it returns its result is written as the entry
\* of the key with the current time and returned to the caller.
C34_FetchOnMiss ==
    (Called /\ ~wret.raised) =>
        /\ wret.hit => ~wret.fetched
        /\ ~wret.hit => wret.fetched
        /\ (wret.fetched /\ ~Fetched.raised) =>
              /\ FileOfCall = Entry(wret.at, Fetched.value)
              /\ wret.got = Fetched.value

\* ------------------------------------------------------------------- C40
\* C40: a network failure during the fetch of a cache miss leaves no valid
\* entry for the key, so that the next call for the key within 24 hours
\* fetches again instead of being served a cached empty or fallback value.
C40_FailedFetchNotCached ==
    [][ (wret' # wret /\ wret'.fetched /\ wret'.net = "down") =>
            LET file == cache'[_cache_path(CacheKey(WikiCall(wret'.fn, wret'.arg)))]
            IN  ~(file.kind = "entry" /\ Fresh(file, now')) ]_vars

WriteFailed(r) ==
    \/ r.status = "raised"
    \/ r.status = "error" /\ r.error \in { WriteError(w) : w \in FailedWrites }

EntriesOf(log, k) == { i \in DOMAIN log : log[i].step = k }

\* C39: when a write of memory.json fails while step k is being logged, the
\* run ends as an ordinary step failure: execute returns status "error" and
\* does not raise, the log in memory holds exactly one entry for step k, and
\* the record in memory and the record in memory.json agree.
C39_WriteFailureIsStepFailure ==
    [][ (pc = "loop" /\ step_num <= Len(steps) /\ WriteFailed(ret')) =>
            /\ ret'.status = "error"
            /\ Cardinality(EntriesOf(memory'.execution_log, step_num)) = 1
            /\ _load_memory(disk') = memory' ]_vars

====
